---------------------------- MODULE Spec2Model ----------------------------
(***************************************************************************)
(* A model of the resume generator of ai-resume-mcp-server/src/index.js:   *)
(* content selection of ResumeGenerator, bullet generation, LaTeX          *)
(* sanitising and template splicing, and the tool handlers of the server.  *)
(*                                                                         *)
(* Text is a sequence of tokens.  A token is one character, or one of the  *)
(* fixed multi-character strings the regular expressions of the source     *)
(* look for (a region marker, a LaTeX command); no two tokens overlap, so  *)
(* matching on tokens is matching on characters.                           *)
(***************************************************************************)
EXTENDS Integers, Sequences, FiniteSets, TLC

VARIABLES
    position,     \* the knowledge-base position handed to selectRelevantExperience
    expPc,        \* "input" before selectRelevantExperience ran, "done" after
    expBullets    \* the description list of the returned position

expVars == <<position, expPc, expBullets>>

VARIABLES
    project,      \* the knowledge-base project handed to selectRelevantProjects
    projPc,       \* "input" before the generation ran, "done" after
    projBullets,  \* the bulletPoints of the selected project
    metadata      \* the metadata of the generation result, <<>> before

projVars == <<project, projPc, projBullets, metadata>>

VARIABLES
    template,        \* the text loadLatexTemplate returns
    lacks,           \* what the template lacks of the markers the replaces look for
    knowledgeBase,   \* profile, positions, skill categories and projects, as loaded
    argJobTitle,     \* args.jobTitle and args.jobDescription of the request
    argJobDescription,
    genPc,           \* "input" before generateResume ran, "done" after
    result           \* what generateResume returned

genVars == <<template, lacks, knowledgeBase, argJobTitle, argJobDescription, genPc, result>>

VARIABLES
    toolName,           \* request.params.name
    hasJobDescription,  \* whether args holds a jobDescription
    storageReadable,    \* whether the files of the knowledge base can be read
    toolPc,             \* where the handler of the call stands
    loadsIssued,        \* the knowledge-base resources a load was issued for
    filesWritten,       \* the kinds of output file written
    response            \* what the CallTool handler returned

toolVars == <<toolName, hasJobDescription, storageReadable, toolPc, loadsIssued,
              filesWritten, response>>

VARIABLES
    sanText,   \* the text handed to sanitizeLatex
    sanPc,     \* "input" before sanitizeLatex ran, "done" after
    sanOut     \* what sanitizeLatex returned

sanVars == <<sanText, sanPc, sanOut>>

VARIABLES
    kbPositions,        \* workExp.work_experience.positions, in knowledge-base order
    kbProjects,         \* the projects loadAllProjects returned, in knowledge-base order
    selJobDescription,  \* the job description of the selection
    selPc,              \* "input" before selectRelevantExperience ran, "done" after
    pselPc,             \* "input" before selectRelevantProjects ran, "done" after
    selected,           \* the scored positions selectRelevantExperience kept, in order
    selectedProjects    \* what selectRelevantProjects returned

selVars == <<kbPositions, kbProjects, selJobDescription, selPc, pselPc, selected,
             selectedProjects>>

VARIABLES
    kbCategories,    \* skills.skills.categories
    skillPc,         \* "input" before selectRelevantSkills ran, "done" after
    selectedSkills,  \* what selectRelevantSkills returned
    skillsBlock      \* what buildSkillsSection made of it

skillVars == <<kbCategories, skillPc, selectedSkills, skillsBlock>>

VARIABLES
    kbResource,           \* the knowledge-base resource the loads ask for
    storage,              \* the content of each file of the resource, as a version number
    cache,                \* KnowledgeBaseManager.cache: file path -> what a read stored
    clears,               \* how many times clearCache ran
    loads,                \* the calls of the load method of the resource
    completedSinceClear,  \* a load returned since the last clearCache (or since the start)
    startedSinceClear,    \* a load started since the last clearCache
    lastData              \* what the load that returned last returned

cacheVars == <<kbResource, storage, cache, clears, loads, completedSinceClear,
               startedSinceClear, lastData>>

VARIABLES
    failingLoads,  \* the resources whose load rejects
    loadState,     \* the promise of each load of the Promise.all
    runPc,         \* where generateResume stands
    stepsRun,      \* the steps of generateResume after the loads that ran
    runResult      \* what generateResume returned

loadVars == <<failingLoads, loadState, runPc, stepsRun, runResult>>

VARIABLES
    heap,          \* the arrays of the process, by reference
    loadedHeap,    \* the arrays of the cached knowledge base as they were loaded
    heapPc,        \* how many generation requests ran
    heapOut        \* what the selections of each request returned

heapVars == <<heap, loadedHeap, heapPc, heapOut>>

VARIABLES
    spDoc,     \* the document handed to replaceSection
    spBlock,   \* the rendered block handed to it
    spPc,      \* "input", "once" after one replaceSection, "twice" after two
    spOnce,    \* the document after one replaceSection
    spTwice    \* the document after a second one with the same block

spliceVars == <<spDoc, spBlock, spPc, spOnce, spTwice>>

VARIABLES
    kwText,    \* the job description handed to extractJobKeywords
    kwPc,      \* "input", "once" after one call, "twice" after two
    kwOut,     \* what the first call returned
    kwAgain    \* what the second call returned

kwVars == <<kwText, kwPc, kwOut, kwAgain>>

\* the variables of the specifications of the cache, the loads and the splices
moreVars == <<cacheVars, loadVars, heapVars, spliceVars, kwVars>>

\* the variables of the specifications of single functions
fnVars == <<sanVars, selVars, skillVars, moreVars>>

\* the variables of the specifications of the selections and the tools
coreVars == <<expVars, projVars, genVars, toolVars, sanVars, selVars, skillVars>>

vars == <<expVars, projVars, genVars, toolVars, fnVars>>

Min(a, b) == IF a < b THEN a ELSE b

(***************************************************************************)
(* Experience selection: the bullets of one selected position.             *)
(***************************************************************************)

\* Most description strings of a position the model enumerates.
MaxDesc == 4
\* Most achievement strings of a position the model enumerates.
MaxAch == 2

\* .slice(0, 3) and `bulletPoints.length < 3`
BulletsPerPosition == 3

DescTexts == {<<"d1">>, <<"d2">>}
\* an achievement may be the empty string
AchTexts == {<<>>, <<"a1">>, <<"a2">>}

SeqsUpTo(S, n) == UNION {[1..k -> S] : k \in 0..n}

\* A position: its description list, and its achievements list when it has one.
Positions ==
    {[description |-> d, hasAchievements |-> h, achievements |-> a] :
        d \in SeqsUpTo(DescTexts, MaxDesc),
        h \in BOOLEAN,
        a \in SeqsUpTo(AchTexts, MaxAch)}

\* 'significant performance improvements'
Filler == <<"significant performance improvements">>

\* `Achieved ${x}`
Achieved(x) == <<"Achieved ">> \o x

\* pos.achievements[i] || 'significant performance improvements'
\* (an index past the end reads undefined, and '' is falsy as well)
AchievementOrFiller(pos, i) ==
    IF i + 1 \in DOMAIN pos.achievements /\ pos.achievements[i + 1] # <<>>
    THEN pos.achievements[i + 1]
    ELSE Filler

\* slice(0, n)
Slice0(s, n) == SubSeq(s, 1, Min(n, Len(s)))

RECURSIVE BackfillLoop(_, _)
\* while (bulletPoints.length < 3 && pos.achievements) bulletPoints.push(...)
\* (an empty achievements array is truthy)
BackfillLoop(pos, bulletPoints) ==
    IF Len(bulletPoints) < BulletsPerPosition /\ pos.hasAchievements
    THEN BackfillLoop(pos, Append(bulletPoints,
            Achieved(AchievementOrFiller(pos, Len(bulletPoints) - Len(pos.description)))))
    ELSE bulletPoints

\* (mutant) no backfill from the achievements
PositionBulletsNoBackfill(pos) == Slice0(pos.description, BulletsPerPosition)

\* the .map callback of selectRelevantExperience: the description of the result
PositionBullets(pos) ==
    Slice0(BackfillLoop(pos, Slice0(pos.description, BulletsPerPosition)), BulletsPerPosition)

ExpIdle ==
    /\ position = [description |-> <<>>, hasAchievements |-> FALSE, achievements |-> <<>>]
    /\ expPc = "idle"
    /\ expBullets = <<>>

ExpInit ==
    /\ position \in {p \in Positions : p.hasAchievements \/ p.achievements = <<>>}
    /\ expPc = "input"
    /\ expBullets = <<>>

SelectExperience ==
    /\ expPc = "input"
    /\ expBullets' = PositionBullets(position)
    /\ expPc' = "done"
    /\ UNCHANGED <<position, projVars, genVars, toolVars, fnVars>>

ExpNext == SelectExperience

(***************************************************************************)
(* Project bullets: generateProjectBulletPoints, on characters.            *)
(***************************************************************************)

\* Most sentences of a project summary the model enumerates.
MaxFrags == 3

\* s.trim().length > 20
MinFragmentLength == 20
\* .slice(0, 2) and `technicalSentences.length >= 2`
BulletsPerProject == 2

Rep(c, n) == [i \in 1..n |-> c]

\* The sentences summaries are made of, each without its closing '.' or '!'.
SentencePool ==
    { Rep("a", 4),                                   \* too short
      Rep("b", 20),                                  \* exactly 20 characters
      Rep("c", 21),                                  \* 21 characters
      <<" ">> \o Rep("e", 19) \o <<" ">>,            \* 21 with its blanks, 19 trimmed
      <<"P","e","r","f","o","r","m","a","n","c","e"," ">> \o Rep("f", 10),
      <<"5","%"," ">> \o Rep("g", 19),               \* a percentage
      <<"3","X"," ","f","a","s","t">>,               \* technical but short
      Rep("*", 21),                                  \* asterisks only
      <<"*","*"," ">> \o Rep("h", 21) }              \* a markdown lead-in

Terminators == {".", "!"}

RECURSIVE FlattenRange(_, _, _)
\* the strings ss[lo..hi], one after the other
FlattenRange(ss, lo, hi) ==
    IF lo > hi THEN <<>>
    ELSE IF lo = hi THEN ss[lo]
    ELSE LET mid == (lo + hi) \div 2
         IN  FlattenRange(ss, lo, mid) \o FlattenRange(ss, mid + 1, hi)
Flatten(ss) == FlattenRange(ss, 1, Len(ss))

\* The summaries: up to MaxFrags sentences, each closed by '.', the last by '.' or '!'.
Summaries ==
    {<<>>} \cup
    UNION {{Flatten([i \in 1..k |-> ss[i] \o <<IF i = k THEN t ELSE ".">>]) :
                ss \in [1..k -> SentencePool], t \in Terminators} : k \in 1..MaxFrags}

Projects ==
    {[summary |-> s, raw_summary |-> r] :
        s \in Summaries, r \in {<<>>, Rep("r", 21) \o <<".">> \o Rep("s", 21)}}

\* project.summary || project.raw_summary ('' is falsy)
ProjectSummary(p) == IF p.summary # <<>> THEN p.summary ELSE p.raw_summary

IsSpace(c) == c \in {" ", "\n"}
IsDigit(c) == c \in {"0", "1", "2", "3", "4", "5", "6", "7", "8", "9"}

UpperLetters ==
    <<"A","B","C","D","E","F","G","H","I","J","K","L","M","N","O","P","Q","R","S","T","U","V","W","X","Y","Z">>
LowerLetters ==
    <<"a","b","c","d","e","f","g","h","i","j","k","l","m","n","o","p","q","r","s","t","u","v","w","x","y","z">>
\* toLowerCase of one character; a multi-character token stands for itself
LowerOfUpper ==
    [c \in {UpperLetters[i] : i \in DOMAIN UpperLetters} |->
        LowerLetters[CHOOSE i \in DOMAIN UpperLetters : UpperLetters[i] = c]]
Lower(c) == IF c \in DOMAIN LowerOfUpper THEN LowerOfUpper[c] ELSE c
ToLowerCase(s) == [i \in DOMAIN s |-> Lower(s[i])]

RECURSIVE TrimStart(_)
TrimStart(s) == IF s # <<>> /\ IsSpace(Head(s)) THEN TrimStart(Tail(s)) ELSE s
RECURSIVE TrimEnd(_)
TrimEnd(s) ==
    IF s # <<>> /\ IsSpace(s[Len(s)]) THEN TrimEnd(SubSeq(s, 1, Len(s) - 1)) ELSE s
\* String.prototype.trim
Trim(s) == TrimEnd(TrimStart(s))

RECURSIVE SplitFrom(_, _, _)
SplitFrom(s, seps, cur) ==
    IF s = <<>> THEN <<cur>>
    ELSE IF Head(s) \in seps THEN <<cur>> \o SplitFrom(Tail(s), seps, <<>>)
    ELSE SplitFrom(Tail(s), seps, Append(cur, Head(s)))
\* summary.split(/[.!]/)
SplitSentences(s) == SplitFrom(s, {".", "!"}, <<>>)

\* s occurs in t as a run of consecutive tokens
Includes(t, s) ==
    \E i \in 0..(Len(t) - Len(s)) : SubSeq(t, i + 1, i + Len(s)) = s

TechnicalTerms ==
    { <<"p","e","r","f","o","r","m","a","n","c","e">>,
      <<"o","p","t","i","m","i","z","a","t","i","o","n">>,
      <<"i","m","p","l","e","m","e","n","t","a","t","i","o","n">>,
      <<"d","e","v","e","l","o","p","m","e","n","t">>,
      <<"a","r","c","h","i","t","e","c","t","u","r","e">> }

\* /\d+%|\d+x|performance|optimization|implementation|development|architecture/
\*     .test(s.toLowerCase())
IsTechnical(s) ==
    LET l == ToLowerCase(s) IN
    \/ \E i \in 1..(Len(l) - 1) : IsDigit(l[i]) /\ l[i + 1] \in {"%", "x"}
    \/ \E w \in TechnicalTerms : Includes(l, w)

\* s => s.trim().length > 20
IsMeaningful(s) == Len(Trim(s)) > MinFragmentLength

RECURSIVE DropStars(_)
DropStars(s) == IF s # <<>> /\ Head(s) = "*" THEN DropStars(Tail(s)) ELSE s
\* bp.trim().replace(/^\*+\s*/, '')
CleanBullet(bp) ==
    LET t == Trim(bp) IN
    IF t # <<>> /\ Head(t) = "*" THEN TrimStart(DropStars(t)) ELSE t

RECURSIVE MapClean(_)
MapClean(ss) == IF ss = <<>> THEN <<>> ELSE <<CleanBullet(Head(ss))>> \o MapClean(Tail(ss))

NonEmpty(s) == Len(s) > 0

\* the sentences kept by the length filter
Sentences(summary) == SelectSeq(SplitSentences(summary), IsMeaningful)
TechnicalSentences(summary) == SelectSeq(Sentences(summary), IsTechnical)

\* (mutant) one technical sentence is enough to take the technical branch
ChosenSentencesOneTechnical(summary) ==
    IF Len(TechnicalSentences(summary)) >= 1
    THEN Slice0(TechnicalSentences(summary), BulletsPerProject)
    ELSE Slice0(Sentences(summary), BulletsPerProject)

\* (mutant) technical sentences first, then the others, in place of the fallback
ChosenSentencesTechnicalFirst(summary) ==
    Slice0(TechnicalSentences(summary)
             \o SelectSeq(Sentences(summary), LAMBDA x : ~IsTechnical(x)),
           BulletsPerProject)

\* the bullets chosen before the clean-up
ChosenSentences(summary) ==
    IF Len(TechnicalSentences(summary)) >= BulletsPerProject
    THEN Slice0(TechnicalSentences(summary), BulletsPerProject)
    ELSE Slice0(Sentences(summary), BulletsPerProject)

GenerateProjectBulletPoints(p) ==
    Slice0(SelectSeq(MapClean(ChosenSentences(ProjectSummary(p))), NonEmpty),
           BulletsPerProject)

\* the metadata of a successful generateResume result
Metadata(jobTitle, nExperience, nProjects, skillCategories) ==
    [ jobTitle |-> jobTitle,
      generatedAt |-> "now",
      experienceCount |-> nExperience,
      projectCount |-> nProjects,
      skillCategories |-> skillCategories,
      atsOptimized |-> TRUE,
      singlePage |-> TRUE ]

ProjIdle ==
    /\ project = [summary |-> <<>>, raw_summary |-> <<>>]
    /\ projPc = "idle"
    /\ projBullets = <<>>
    /\ metadata = <<>>

ProjInit ==
    /\ project \in {p \in Projects : ProjectSummary(p) # <<>>}
    /\ projPc = "input"
    /\ projBullets = <<>>
    /\ metadata = <<>>

\* generateResume on a knowledge base whose one project is `project`:
\* selectRelevantProjects gives it its bulletPoints, the result its metadata
SelectProject ==
    /\ projPc = "input"
    /\ projBullets' = GenerateProjectBulletPoints(project)
    /\ metadata' = Metadata(<<"Software Engineer">>, 0, 1, {})
    /\ projPc' = "done"
    /\ UNCHANGED <<project, expVars, genVars, toolVars, fnVars>>

ProjNext == SelectProject

(***************************************************************************)
(* LaTeX text.  The multi-character tokens are the strings the regular     *)
(* expressions of buildLatexResume, replaceSection and replaceSkillsSection*)
(* are built from; every other token is one character or a run of text    *)
(* that holds none of them.                                                *)
(***************************************************************************)
ResumeItemOpen == "\\resumeItem{"
\* 'Software Engineer with', as the job title and the word after it
Sentinel == <<"Software Engineer", " with">>
ListStart == "\\resumeSubHeadingListStart"
ListEnd == "\\resumeSubHeadingListEnd"
SkillsMarker == "%------SKILLS SECTION-------"
\* \section{Skills} and \n\vspace{-12pt}, each up to its closing brace
SectionSkillsOpen == "\\section{Skills"
SmallNl == "\\small\n"
NlVspace12Open == "\n\\vspace{-12pt"

\* sectionName.toUpperCase()
ToUpperCase(sectionName) ==
    CASE sectionName = "Experience" -> "EXPERIENCE"
      [] sectionName = "Projects" -> "PROJECTS"
\* `%-----------${sectionName.toUpperCase()}-----------`
SectionMarker(sectionName) == "%-----------" \o ToUpperCase(sectionName) \o "-----------"

\* the tokens whose first character is '%'
StartsWithPercent(tok) ==
    tok \in {"%", SectionMarker("Experience"), SectionMarker("Projects"), SkillsMarker}

\* text.replace(/c/g, r) for a one-character c: every token c becomes the tokens r
ReplaceAll(text, c, r) ==
    Flatten([i \in DOMAIN text |-> IF text[i] = c THEN r ELSE <<text[i]>>])

\* text.replace(/%/g, '\\%'): a token that starts with '%' keeps the rest of its text
ReplacePercent(text) ==
    Flatten([i \in DOMAIN text |->
        IF StartsWithPercent(text[i]) THEN <<"\\", text[i]>> ELSE <<text[i]>>])

\* sanitizeLatex: nine replaces, one after the other
SanitizeLatex(text) ==
    LET s1 == ReplaceAll(text, "&", <<"\\", "&">>)
        s2 == ReplacePercent(s1)
        s3 == ReplaceAll(s2, "$", <<"\\", "$">>)
        s4 == ReplaceAll(s3, "#", <<"\\", "#">>)
        s5 == ReplaceAll(s4, "^", <<"\\", "^", "{", "}">>)
        s6 == ReplaceAll(s5, "~", <<"\\", "~", "{", "}">>)
        s7 == ReplaceAll(s6, "_", <<"\\", "_">>)
        s8 == ReplaceAll(s7, "{", <<"\\", "{">>)
    IN  ReplaceAll(s8, "}", <<"\\", "}">>)

\* the least i >= from at which pat occurs in doc, 0 when there is none
IndexFrom(doc, pat, from) ==
    LET hits == {i \in from..(Len(doc) - Len(pat) + 1) :
                    SubSeq(doc, i, i + Len(pat) - 1) = pat}
    IN  IF hits = {} THEN 0 ELSE CHOOSE i \in hits : \A j \in hits : i <= j

(***************************************************************************)
(* String.prototype.replace(regex, replacementString): the replacement     *)
(* string is a pattern in which $$, $&, $ + backtick, $ + quote and        *)
(* $1..$99 are expanded.                                                  *)
(* m is a match: its text, the text before and after it, its groups.       *)
(***************************************************************************)
\* the backtick character, which a module cannot hold in a string
Backtick == "[backtick]"

DigitValue(c) ==
    CASE c = "0" -> 0 [] c = "1" -> 1 [] c = "2" -> 2 [] c = "3" -> 3 [] c = "4" -> 4
      [] c = "5" -> 5 [] c = "6" -> 6 [] c = "7" -> 7 [] c = "8" -> 8 [] c = "9" -> 9

RECURSIVE GetSubstitution(_, _)
GetSubstitution(repl, m) ==
    LET d == IndexFrom(repl, <<"$">>, 1) IN
    IF d = 0 \/ d = Len(repl) THEN repl
    ELSE LET c == repl[d + 1]
             literal == SubSeq(repl, 1, d - 1)
             rest1 == SubSeq(repl, d + 1, Len(repl))
             rest2 == SubSeq(repl, d + 2, Len(repl))
             rest3 == SubSeq(repl, d + 3, Len(repl))
             two == IF IsDigit(c) /\ Len(repl) >= d + 2 /\ IsDigit(repl[d + 2])
                    THEN 10 * DigitValue(c) + DigitValue(repl[d + 2]) ELSE 0
         IN  literal \o
            (CASE c = "$" -> <<"$">> \o GetSubstitution(rest2, m)
               [] c = "&" -> m.matched \o GetSubstitution(rest2, m)
               [] c = Backtick -> m.before \o GetSubstitution(rest2, m)
               [] c = "'" -> m.after \o GetSubstitution(rest2, m)
               [] IsDigit(c) /\ two >= 1 /\ two <= Len(m.groups) ->
                    m.groups[two] \o GetSubstitution(rest3, m)
               [] IsDigit(c) /\ ~(two >= 1 /\ two <= Len(m.groups))
                       /\ DigitValue(c) >= 1 /\ DigitValue(c) <= Len(m.groups) ->
                    m.groups[DigitValue(c)] \o GetSubstitution(rest2, m)
               [] OTHER -> <<"$">> \o GetSubstitution(rest1, m))

\* the document with the match replaced by the expanded replacement string
ReplaceMatch(doc, m, repl) == m.before \o GetSubstitution(repl, m) \o m.after

\* /\\resumeItem\{[^}]*Software Engineer with[^}]*\}/s : the leftmost match,
\* as <<first, last>> positions, <<0, 0>> when there is none.  No token but "}"
\* holds a '}', so the match ends at the first "}" after its \resumeItem{
SummaryMatch(doc) ==
    LET Close(i) == IndexFrom(doc, <<"}">>, i + 1)
        starts == {i \in DOMAIN doc :
                      /\ doc[i] = ResumeItemOpen
                      /\ Close(i) # 0
                      /\ Includes(SubSeq(doc, i + 1, Close(i) - 1), Sentinel)}
    IN  IF starts = {} THEN <<0, 0>>
        ELSE LET i == CHOOSE i \in starts : \A j \in starts : i <= j
             IN  <<i, Close(i)>>

\* latexContent.replace(/\\resumeItem\{[^}]*Software Engineer with[^}]*\}/s, summarySection)
ReplaceSummary(doc, summarySection) ==
    LET r == SummaryMatch(doc) IN
    IF r[1] = 0 THEN doc
    ELSE ReplaceMatch(doc,
            [matched |-> SubSeq(doc, r[1], r[2]),
             before |-> SubSeq(doc, 1, r[1] - 1),
             after |-> SubSeq(doc, r[2] + 1, Len(doc)),
             groups |-> <<>>],
            summarySection)

\* The match of a pattern made of literals with lazy .*? between them: the first
\* occurrence of each literal after the one before.  If these do not all exist
\* no later start matches either.  <<>> when there is no match, else the
\* position of each literal's first token.
RECURSIVE LazyMatch(_, _, _)
LazyMatch(doc, literals, from) ==
    IF literals = <<>> THEN <<>>
    ELSE LET i == IndexFrom(doc, Head(literals), from)
             rest == LazyMatch(doc, Tail(literals), i + Len(Head(literals)))
         IN  IF i = 0 \/ (Len(literals) > 1 /\ rest = <<>>) THEN <<>>
             ELSE <<i>> \o rest

\* (%-----------NAME-----------.*?\\resumeSubHeadingListStart)(.*?)(\\resumeSubHeadingListEnd)
\* replaced by `$1\n\n${newContent}\n\n  $3`
ReplaceSection(latexContent, sectionName, newContent) ==
    LET at == LazyMatch(latexContent,
                  <<<<SectionMarker(sectionName)>>, <<ListStart>>, <<ListEnd>>>>, 1)
    IN  IF at = <<>> THEN latexContent
        ELSE ReplaceMatch(latexContent,
                [matched |-> SubSeq(latexContent, at[1], at[3]),
                 before |-> SubSeq(latexContent, 1, at[1] - 1),
                 after |-> SubSeq(latexContent, at[3] + 1, Len(latexContent)),
                 groups |-> << SubSeq(latexContent, at[1], at[2]),
                               SubSeq(latexContent, at[2] + 1, at[3] - 1),
                               <<ListEnd>> >>],
                <<"$", "1", "\n\n">> \o newContent \o <<"\n\n  ", "$", "3">>)

\* (%------SKILLS SECTION-------.*?\\section\{Skills\}.*?\\small\n)(.*?)(\n\\vspace\{-12pt\})
\* replaced by `$1${skillsContent}$3`
ReplaceSkillsSection(latexContent, skillsContent) ==
    LET at == LazyMatch(latexContent,
                  << <<SkillsMarker>>, <<SectionSkillsOpen, "}">>, <<SmallNl>>,
                     <<NlVspace12Open, "}">> >>, 1)
    IN  IF at = <<>> THEN latexContent
        ELSE ReplaceMatch(latexContent,
                [matched |-> SubSeq(latexContent, at[1], at[4] + 1),
                 before |-> SubSeq(latexContent, 1, at[1] - 1),
                 after |-> SubSeq(latexContent, at[4] + 2, Len(latexContent)),
                 groups |-> << SubSeq(latexContent, at[1], at[3]),
                               SubSeq(latexContent, at[3] + 1, at[4] - 1),
                               <<NlVspace12Open, "}">> >>],
                <<"$", "1">> \o skillsContent \o <<"$", "3">>)

(***************************************************************************)
(* extractJobKeywords and generateTailoredSummary.                         *)
(***************************************************************************)
\* techKeywords, in the order of the source
TechKeywords ==
    << <<"p","y","t","h","o","n">>,
       <<"j","a","v","a">>,
       <<"j","a","v","a","s","c","r","i","p","t">>,
       <<"r","e","a","c","t">>,
       <<"n","o","d","e",".","j","s">>,
       <<"s","p","r","i","n","g"," ","b","o","o","t">>,
       <<"a","w","s">>,
       <<"d","o","c","k","e","r">>,
       <<"k","u","b","e","r","n","e","t","e","s">>,
       <<"p","o","s","t","g","r","e","s","q","l">>,
       <<"m","o","n","g","o","d","b">>,
       <<"r","e","d","i","s">>,
       <<"m","i","c","r","o","s","e","r","v","i","c","e","s">>,
       <<"a","p","i">>,
       <<"r","e","s","t">>,
       <<"g","r","a","p","h","q","l">>,
       <<"c","i","/","c","d">>,
       <<"d","e","v","o","p","s">>,
       <<"m","a","c","h","i","n","e"," ","l","e","a","r","n","i","n","g">>,
       <<"a","i">>,
       <<"t","e","n","s","o","r","f","l","o","w">>,
       <<"p","y","t","o","r","c","h">>,
       <<"c","l","o","u","d">>,
       <<"b","a","c","k","e","n","d">>,
       <<"f","r","o","n","t","e","n","d">>,
       <<"f","u","l","l","-","s","t","a","c","k">>,
       <<"a","g","i","l","e">>,
       <<"s","c","r","u","m">>,
       <<"g","i","t">>,
       <<"l","i","n","u","x">>,
       <<"o","a","u","t","h">>,
       <<"j","w","t">>,
       <<"s","e","c","u","r","i","t","y">>,
       <<"p","e","r","f","o","r","m","a","n","c","e">>,
       <<"s","c","a","l","a","b","i","l","i","t","y">> >>

\* (mutant) the filter on the description as written, not lower-cased
ExtractJobKeywordsAsWritten(jobDescription) ==
    SelectSeq(TechKeywords, LAMBDA k : Includes(jobDescription, k))

\* techKeywords.filter(keyword => descriptionLower.includes(keyword))
ExtractJobKeywords(jobDescription) ==
    LET descriptionLower == ToLowerCase(jobDescription)
    IN  SelectSeq(TechKeywords, LAMBDA k : Includes(descriptionLower, k))

RECURSIVE Join(_, _)
\* Array.prototype.join
Join(ss, sep) ==
    IF ss = <<>> THEN <<>>
    ELSE IF Len(ss) = 1 THEN ss[1]
    ELSE ss[1] \o sep \o Join(Tail(ss), sep)

\* the template literal of generateTailoredSummary
GenerateTailoredSummary(profile, jobDescription, jobTitle) ==
    LET jobKeywords == ExtractJobKeywords(jobDescription)
        relevantAchievements == Slice0(profile.key_achievements, 2)
        relevantTech ==
            Slice0(SelectSeq(profile.strongest_areas,
                      LAMBDA area : \E i \in DOMAIN jobKeywords :
                          Includes(ToLowerCase(area), ToLowerCase(jobKeywords[i]))), 3)
    IN  jobTitle \o <<" with", " ">> \o profile.total_experience
          \o <<" full-stack development experience specializing in ">>
          \o Join(relevantTech, <<",", " ">>) \o <<".", " ">>
          \o Join(relevantAchievements, <<" and ">>)
          \o <<" across enterprise applications. Expertise in scalable system design, team leadership, and agile development methodologies.">>

(***************************************************************************)
(* Scoring and selection: calculateRelevanceScore,                         *)
(* calculateProjectRelevanceScore, selectRelevantExperience,               *)
(* selectRelevantProjects, selectRelevantSkills.                           *)
(***************************************************************************)
\* new RegExp(keywordLower): every character is itself, but '.' is any
\* character other than a line break
RegexMatchesAt(text, i, pattern) ==
    /\ i + Len(pattern) - 1 <= Len(text)
    /\ \A k \in DOMAIN pattern :
          IF pattern[k] = "." THEN text[i + k - 1] # "\n"
          ELSE text[i + k - 1] = pattern[k]

RECURSIVE CountMatchesFrom(_, _, _)
\* (searchText.match(new RegExp(keywordLower, 'g')) || []).length
\* (the matches of a 'g' regex do not overlap: the search goes on after each match)
CountMatchesFrom(text, pattern, i) ==
    LET hits == {j \in i..(Len(text) - Len(pattern) + 1) : RegexMatchesAt(text, j, pattern)}
    IN  IF hits = {} THEN 0
        ELSE 1 + CountMatchesFrom(text, pattern,
                    (CHOOSE j \in hits : \A k \in hits : j <= k) + Len(pattern))

RECURSIVE KeywordScore(_, _)
\* jobKeywords.forEach(keyword => { score += matches * 2 })
KeywordScore(searchText, jobKeywords) ==
    IF jobKeywords = <<>> THEN 0
    ELSE 2 * CountMatchesFrom(searchText, ToLowerCase(Head(jobKeywords)), 1)
            + KeywordScore(searchText, Tail(jobKeywords))

CurrentBoost == 5
TechnicalBoost == 3

\* (mutant) the keyword part alone
CalculateRelevanceScoreNoBoost(pos, jobKeywords) ==
    KeywordScore(ToLowerCase(Join(<< Join(pos.description, <<" ">>),
                                     Join(pos.technologies, <<" ">>),
                                     Join(pos.achievements, <<" ">>) >>, <<" ">>)),
                 jobKeywords)

CalculateRelevanceScore(pos, jobKeywords) ==
    LET searchText ==
            ToLowerCase(Join(<< Join(pos.description, <<" ">>),
                                Join(pos.technologies, <<" ">>),
                                Join(pos.achievements, <<" ">>) >>, <<" ">>))
        title == ToLowerCase(pos.position)
    IN  KeywordScore(searchText, jobKeywords)
          + (IF pos.status = "Current" THEN CurrentBoost ELSE 0)
          + (IF Includes(title, <<"e","n","g","i","n","e","e","r">>)
                \/ Includes(title, <<"d","e","v","e","l","o","p","e","r">>)
             THEN TechnicalBoost ELSE 0)

CalculateProjectRelevanceScore(proj, jobKeywords) ==
    KeywordScore(ToLowerCase(ProjectSummary(proj)), jobKeywords)

RECURSIVE InsertByScoreUnstable(_, _)
\* (mutant) an insertion that puts an item before the items of its own score
InsertByScoreUnstable(sorted, x) ==
    IF sorted = <<>> THEN <<x>>
    ELSE IF Head(sorted).relevanceScore > x.relevanceScore
    THEN <<Head(sorted)>> \o InsertByScoreUnstable(Tail(sorted), x)
    ELSE <<x>> \o sorted

RECURSIVE InsertByScore(_, _)
InsertByScore(sorted, x) ==
    IF sorted = <<>> THEN <<x>>
    ELSE IF Head(sorted).relevanceScore >= x.relevanceScore
    THEN <<Head(sorted)>> \o InsertByScore(Tail(sorted), x)
    ELSE <<x>> \o sorted

RECURSIVE SortByScoreFrom(_, _)
SortByScoreFrom(sorted, rest) ==
    IF rest = <<>> THEN sorted
    ELSE SortByScoreFrom(InsertByScore(sorted, Head(rest)), Tail(rest))

\* (mutant) no sort
SortByScoreNone(items) == items

\* .sort((a, b) => b.relevanceScore - a.relevanceScore): stable, descending
SortByScore(items) == SortByScoreFrom(<<>>, items)

MaxPositions == 4
MaxProjects == 3
MaxSkillsPerCategory == 8

\* positions.map(pos => ({...pos, relevanceScore: ...}))
ScorePositions(positions, jobKeywords) ==
    [i \in DOMAIN positions |->
        [pos |-> positions[i],
         relevanceScore |-> CalculateRelevanceScore(positions[i], jobKeywords)]]

\* .sort((a, b) => b.relevanceScore - a.relevanceScore).slice(0, 4)
TopPositions(positions, jobDescription) ==
    Slice0(SortByScore(ScorePositions(positions, ExtractJobKeywords(jobDescription))),
           MaxPositions)

\* the .map of selectRelevantExperience: each kept position with its bullets,
\* and the relevanceScore it carries
SelectScoredExperience(positions, jobDescription) ==
    LET top == TopPositions(positions, jobDescription)
    IN  [i \in DOMAIN top |->
            [pos |-> [top[i].pos EXCEPT !.description = PositionBullets(top[i].pos)],
             relevanceScore |-> top[i].relevanceScore]]

SelectRelevantExperience(positions, jobDescription) ==
    LET scored == SelectScoredExperience(positions, jobDescription)
    IN  [i \in DOMAIN scored |-> scored[i].pos]

SelectRelevantProjects(projects, jobDescription) ==
    LET jobKeywords == ExtractJobKeywords(jobDescription)
        scoredProjects ==
            [i \in DOMAIN projects |->
                [title |-> projects[i].title,
                 relevanceScore |-> CalculateProjectRelevanceScore(projects[i], jobKeywords),
                 githubUrl |-> <<"https://github.com/Dextron04/">> \o projects[i].title,
                 bulletPoints |-> GenerateProjectBulletPoints(projects[i])]]
    IN  Slice0(SortByScore(scoredProjects), MaxProjects)

\* the filter of selectRelevantSkills
SkillIsKept(skill, jobKeywords) ==
    \/ \E i \in DOMAIN jobKeywords :
          \/ Includes(ToLowerCase(skill.name), ToLowerCase(jobKeywords[i]))
          \/ \E c \in DOMAIN skill.context :
                Includes(ToLowerCase(skill.context[c]), ToLowerCase(jobKeywords[i]))
    \/ skill.proficiency \in {"Advanced", "Intermediate"}

\* selectRelevantSkills without the limit of skills per category
SelectRelevantSkillsUncapped(categories, jobDescription) ==
    LET jobKeywords == ExtractJobKeywords(jobDescription)
        Kept(c) == SelectSeq(categories[c].skills, LAMBDA sk : SkillIsKept(sk, jobKeywords))
    IN  [c \in {c \in DOMAIN categories : Len(Kept(c)) > 0} |-> [skills |-> Kept(c)]]

SelectRelevantSkills(categories, jobDescription) ==
    LET jobKeywords == ExtractJobKeywords(jobDescription)
        Kept(c) == SelectSeq(categories[c].skills, LAMBDA sk : SkillIsKept(sk, jobKeywords))
    IN  [c \in {c \in DOMAIN categories : Len(Kept(c)) > 0} |->
            [skills |-> Slice0(Kept(c), MaxSkillsPerCategory)]]

(***************************************************************************)
(* The LaTeX blocks: buildExperienceSection, buildProjectsSection,         *)
(* buildSkillsSection.                                                     *)
(***************************************************************************)
RECURSIVE MapItems(_)
\* descriptions.map(d => `        \\resumeItem{${this.sanitizeLatex(d)}}`)
MapItems(texts) ==
    IF texts = <<>> THEN <<>>
    ELSE << <<"        ", ResumeItemOpen>> \o SanitizeLatex(Head(texts)) \o <<"}">> >>
            \o MapItems(Tail(texts))

ExperienceEntry(exp) ==
    <<"    \\resumeSubheading\n      ", "{">> \o SanitizeLatex(exp.company) \o <<"}", "{">>
      \o SanitizeLatex(exp.duration.start_date) \o <<" -- ">>
      \o SanitizeLatex(exp.duration.end_date) \o <<"}", "\n      ", "{">>
      \o SanitizeLatex(exp.position) \o <<"}", "{">> \o SanitizeLatex(exp.location)
      \o <<"}", "\n      \\resumeItemListStart\n">>
      \o Join(MapItems(exp.description), <<"\n">>)
      \o <<"\n      \\resumeItemListEnd\n      \\vspace{-3pt", "}">>

RECURSIVE MapExperience(_)
MapExperience(exps) ==
    IF exps = <<>> THEN <<>> ELSE <<ExperienceEntry(Head(exps))>> \o MapExperience(Tail(exps))

BuildExperienceSection(experiences) == Join(MapExperience(experiences), <<"\n\n">>)

ProjectEntry(proj) ==
    <<"\\resumeProjectHeading\n    ", "{", "\\textbf{">> \o SanitizeLatex(proj.title)
      \o <<"}", " \\href{">> \o proj.githubUrl
      \o <<"}", "{", "[\\underline{Link to GitHub", "}", "]", "}", "}", "{", "}",
           "\n    \\resumeItemListStart\n">>
      \o Join(MapItems(proj.bulletPoints), <<"\n">>)
      \o <<"\n    \\resumeItemListEnd\n    \\vspace{-3pt", "}">>

RECURSIVE MapProjects(_)
MapProjects(projs) ==
    IF projs = <<>> THEN <<>> ELSE <<ProjectEntry(Head(projs))>> \o MapProjects(Tail(projs))

BuildProjectsSection(projects) == Join(MapProjects(projects), <<"\n\n">>)

\* extractSkillNames: the names of a category, [] for a category that is not there
ExtractSkillNames(skillCategories, categoryKey) ==
    IF categoryKey \in DOMAIN skillCategories
    THEN [i \in DOMAIN skillCategories[categoryKey].skills |->
            skillCategories[categoryKey].skills[i].name]
    ELSE <<>>

RECURSIVE MapSanitize(_)
MapSanitize(names) ==
    IF names = <<>> THEN <<>> ELSE <<SanitizeLatex(Head(names))>> \o MapSanitize(Tail(names))

\* (mutant) a line for every group, also one without names
SkillLineAlways(label, names) ==
    << <<"\\textbf{">> \o label \o <<"}", " ">> \o Join(MapSanitize(names), <<",", " ">>) >>

SkillLine(label, names) ==
    IF names = <<>> THEN <<>>
    ELSE << <<"\\textbf{">> \o label \o <<"}", " ">> \o Join(MapSanitize(names), <<",", " ">>) >>

BuildSkillsSection(skillCategories) ==
    LET programmingSkills == ExtractSkillNames(skillCategories, "programming_languages")
        webSkills == ExtractSkillNames(skillCategories, "web_technologies")
        cloudSkills == ExtractSkillNames(skillCategories, "cloud_technologies")
        databaseSkills == ExtractSkillNames(skillCategories, "databases")
        toolSkills == ExtractSkillNames(skillCategories, "tools_and_systems")
        specializedSkills == ExtractSkillNames(skillCategories, "specialized_technologies")
        skillLines ==
            SkillLine(<<"Programming Languages:">>, programmingSkills)
              \o SkillLine(<<"Frontend ", "\\", "&", " Backend:">>, webSkills)
              \o SkillLine(<<"Databases ", "\\", "&", " Cloud:">>, databaseSkills \o cloudSkills)
              \o SkillLine(<<"AI/ML ", "\\", "&", " Tools:">>, toolSkills \o specializedSkills)
    IN  Join(skillLines, <<" ", "\\", "\\", "\n">>)

\* buildLatexResume: the four replaces, in the order of the source
BuildLatexResume(tmpl, summary, experience, skills, projects) ==
    LET summarySection ==
            <<ResumeItemOpen, "\n  ">> \o SanitizeLatex(summary) \o <<"\n", "}">>
        l1 == ReplaceSummary(tmpl, summarySection)
        l2 == ReplaceSection(l1, "Experience", BuildExperienceSection(experience))
        l3 == ReplaceSection(l2, "Projects", BuildProjectsSection(projects))
    IN  ReplaceSkillsSection(l3, BuildSkillsSection(skills))

(***************************************************************************)
(* generateResume, on a template and a knowledge base of one position, one *)
(* project and one skill category.                                         *)
(***************************************************************************)
ExperienceMarker == SectionMarker("Experience")
ProjectsMarker == SectionMarker("Projects")

\* The template, in the pieces the replaces leave alone and the four inner spans.
TemplateHead == <<"\\documentclass ... \\section{Summary", "}", "\n", ResumeItemOpen>>
OldSummary == <<" 2 years of experience in web development">>
TemplateAfterSummary ==
    <<"}", "\n\n", ExperienceMarker, "\n\\section{Experience", "}", "\n  ", ListStart>>
OldExperience == <<"\n  old experience entries\n  ">>
TemplateAfterExperience ==
    <<ListEnd, "\n\n\n", ProjectsMarker, "\n\\section{Projects", "}", "\n    ", ListStart>>
OldProjects == <<"\n  old project entries\n  ">>
TemplateAfterProjects ==
    <<ListEnd, "\n\n\n\n", SkillsMarker, "\n", SectionSkillsOpen, "}",
      "\n \\begin{itemize", "}", "\\item{", SmallNl>>
OldSkills == <<"old skill lines">>
TemplateTail ==
    <<NlVspace12Open, "}", "\n \\end{itemize", "}", "\n\\end{document", "}">>

\* what a template may lack: nothing, or one token of one region
Lacking ==
    {<<"none", "nothing">>, <<"Summary", "sentinel">>}
      \cup ({"Experience", "Projects"} \X {"marker", ListStart, ListEnd})
      \cup ({"Skills"} \X {SkillsMarker, SectionSkillsOpen, SmallNl, NlVspace12Open})

Without(segment, what) == SelectSeq(segment, LAMBDA tok : tok # what)

\* the template that lacks `what`
TemplateLacking(what) ==
    TemplateHead
      \o (IF what[1] = "Summary" THEN <<"Backend developer", " with">> ELSE Sentinel)
      \o OldSummary
      \o (IF what = <<"Experience", "marker">>
          THEN Without(TemplateAfterSummary, ExperienceMarker)
          ELSE IF what = <<"Experience", ListStart>>
          THEN Without(TemplateAfterSummary, ListStart)
          ELSE TemplateAfterSummary)
      \o OldExperience
      \o (IF what = <<"Experience", ListEnd>> THEN Without(TemplateAfterExperience, ListEnd)
          ELSE IF what = <<"Projects", "marker">>
          THEN Without(TemplateAfterExperience, ProjectsMarker)
          ELSE IF what = <<"Projects", ListStart>>
          THEN Without(TemplateAfterExperience, ListStart)
          ELSE TemplateAfterExperience)
      \o OldProjects
      \o (IF what = <<"Projects", ListEnd>> THEN Without(TemplateAfterProjects, ListEnd)
          ELSE IF what[1] = "Skills" /\ what[2] # NlVspace12Open
          THEN Without(TemplateAfterProjects, what[2])
          ELSE TemplateAfterProjects)
      \o OldSkills
      \o (IF what = <<"Skills", NlVspace12Open>> THEN Without(TemplateTail, NlVspace12Open)
          ELSE TemplateTail)

\* the job titles, the description bullets, the project summaries and the skill
\* names the requests and knowledge bases of the model hold
JobTitles ==
    { <<"Software Engineer">>,
      <<"R", "&", "D", " ", "L", "e", "a", "d">>,
      <<"E", "n", "g", "i", "n", "e", "e", "r", " ", "$", "'">>,
      <<"E", "n", "g", "i", "n", "e", "e", "r", " ", "$", Backtick>>,
      <<ExperienceMarker, ListStart>> }

DescriptionBullets ==
    { <<"B", "u", "i", "l", "t", " ", "A", "P", "I", "s">>,
      <<"S", "a", "v", "e", "d", " ", "$", "3", "M">>,
      <<"$", "1">>, <<"$", "&">>, <<"$", "'">>, <<"$", Backtick>>,
      <<"5", "0", "%", " ", "a", "_", "b", " ", "#", "1", " ", "{", "x", "}", " ", "^", "~", "&">>,
      <<ProjectsMarker, ListStart>> }

ProjectSummaries ==
    { Rep("c", 21) \o <<".">>,
      <<"$", "'">> \o Rep("p", 21) \o <<".">> \o Rep("q", 21),
      <<"C", "u", "t", " ", "$", "3", " ", "&", " ", "5", "%">> \o Rep("r", 12) }

SkillNames == {<<"C", "+", "+">>, <<"C", "#">>, <<"$", "1">>}

PositionWith(bullet) ==
    [ company |-> <<"A", "&", "B">>,
      position |-> <<"S", "o", "f", "t", "w", "a", "r", "e", " ",
                     "E", "n", "g", "i", "n", "e", "e", "r">>,
      location |-> <<"R", "e", "m", "o", "t", "e">>,
      duration |-> [start_date |-> <<"2", "0", "2", "3">>, end_date |-> <<"P", "r", "e", "s", "e", "n", "t">>],
      status |-> "Current",
      description |-> <<bullet>>,
      technologies |-> << <<"A", "W", "S">> >>,
      hasAchievements |-> FALSE,
      achievements |-> <<>> ]

Profile(ok) ==
    [ hasCareerHighlights |-> ok,
      total_experience |-> <<"2", "+", " ", "y", "e", "a", "r", "s">>,
      key_achievements |-> << <<"4", "0", "%", " ", "f", "a", "s", "t", "e", "r">> >>,
      strongest_areas |-> << <<"A", "W", "S", " ", "c", "l", "o", "u", "d">> >> ]

KnowledgeBases ==
    {[ profile |-> Profile(ok),
       positions |-> <<PositionWith(b)>>,
       categories |-> cats,
       projects |-> <<[title |-> <<"r", "e", "s", "u", "m", "e", "_", "a", "g", "e", "n", "t">>,
                       summary |-> ps, raw_summary |-> <<>>]>> ] :
        ok \in BOOLEAN, b \in DescriptionBullets, ps \in ProjectSummaries,
        cats \in {[c \in {} |-> <<>>]}
                   \cup {[c \in {"programming_languages"} |->
                            [skills |-> <<[name |-> n, proficiency |-> "Advanced",
                                           context |-> <<>>]>>]] : n \in SkillNames}}

NoResult == [success |-> FALSE, latexContent |-> <<>>, metadata |-> <<>>, error |-> "none"]

\* generateResume: the loads, the selection, buildLatexResume, and the catch
GenerateResumeResult(tmpl, kb, description, title) ==
    IF ~kb.profile.hasCareerHighlights
    THEN \* generateTailoredSummary reads a property of undefined: caught
         [success |-> FALSE, latexContent |-> <<>>, metadata |-> <<>>, error |-> "TypeError"]
    ELSE LET tailoredSummary == GenerateTailoredSummary(kb.profile, description, title)
             relevantExperience == SelectRelevantExperience(kb.positions, description)
             relevantSkills == SelectRelevantSkills(kb.categories, description)
             relevantProjects == SelectRelevantProjects(kb.projects, description)
         IN  [success |-> TRUE,
              latexContent |-> BuildLatexResume(tmpl, tailoredSummary, relevantExperience,
                                                relevantSkills, relevantProjects),
              metadata |-> Metadata(title, Len(relevantExperience), Len(relevantProjects),
                                    DOMAIN relevantSkills),
              error |-> "none"]

GenIdle ==
    /\ template = <<>>
    /\ lacks = <<"none", "nothing">>
    /\ knowledgeBase = <<>>
    /\ argJobTitle = <<>>
    /\ argJobDescription = <<>>
    /\ genPc = "idle"
    /\ result = NoResult

GenInit ==
    /\ lacks \in Lacking
    /\ template = TemplateLacking(lacks)
    /\ knowledgeBase \in KnowledgeBases
    /\ argJobTitle \in JobTitles
    /\ argJobDescription = <<"A", "W", "S", " ", "t", "e", "a", "m">>
    /\ genPc = "input"
    /\ result = NoResult

GenerateResume ==
    /\ genPc = "input"
    /\ result' = GenerateResumeResult(template, knowledgeBase, argJobDescription, argJobTitle)
    /\ genPc' = "done"
    /\ UNCHANGED <<template, lacks, knowledgeBase, argJobTitle, argJobDescription,
                   expVars, projVars, toolVars, fnVars>>

GenNext == GenerateResume

(***************************************************************************)
(* The tool handlers that generate a resume: generate-resume and           *)
(* generate-and-convert-resume, step by step from the call to the          *)
(* response, with the knowledge-base loads they issue and the files they   *)
(* write.                                                                  *)
(***************************************************************************)
GeneratingTools == {"generate-resume", "generate-and-convert-resume"}

\* what generateResume loads in its Promise.all
Resources == {"profile", "workExperience", "skills", "projects", "template"}

\* args.jobDescription when the request holds one: empty, blank, or a text
JobDescriptions ==
    { <<>>, <<" ">>, <<" ", "\n", " ">>,
      <<"A", "W", "S", " ", "t", "e", "a", "m">> }

ToolJobTitles == {<<"Software Engineer">>, <<"R", "&", "D", " ", "L", "e", "a", "d">>}

\* the knowledge bases of the requests: one whose profile is whole, one whose
\* profile lacks career_highlights
ToolKnowledgeBases ==
    {kb \in KnowledgeBases :
        /\ kb.positions[1].description[1] = <<"B", "u", "i", "l", "t", " ", "A", "P", "I", "s">>
        /\ kb.projects[1].summary = Rep("c", 21) \o <<".">>
        /\ DOMAIN kb.categories = {}}

\* the message of the Error handleGenerateResume throws on a blank description
ValidationError == "Job description is required and cannot be empty"
GenerationError == "Resume generation failed"
ConversionError == "PDF conversion failed"

NoResponse == [isError |-> FALSE, text |-> "none"]
\* the catch of the CallTool handler: the message of the Error, isError set
ErrorResponse(message) == [isError |-> TRUE, text |-> message]
SuccessResponse == [isError |-> FALSE, text |-> "successful"]
\* the catch of the CallTool handler on an Error whose message ends in the
\* message of another one, as in `Resume generation failed: ${result.error}`
FailureResponse(message, cause) == [isError |-> TRUE, text |-> message, cause |-> cause]

\* `!jobDescription || jobDescription.trim().length === 0`
IsBlankJobDescription(has, description) == ~has \/ Len(Trim(description)) = 0

ToolIdle ==
    /\ toolName = "none"
    /\ hasJobDescription = FALSE
    /\ storageReadable = FALSE
    /\ toolPc = "idle"
    /\ loadsIssued = {}
    /\ filesWritten = {}
    /\ response = NoResponse

ToolInit ==
    /\ toolName \in GeneratingTools
    /\ hasJobDescription \in BOOLEAN
    /\ argJobDescription \in (IF hasJobDescription THEN JobDescriptions ELSE {<<>>})
    /\ argJobTitle \in ToolJobTitles
    /\ storageReadable \in BOOLEAN
    /\ knowledgeBase \in ToolKnowledgeBases
    /\ lacks = <<"none", "nothing">>
    /\ template = TemplateLacking(lacks)
    /\ genPc = "idle"
    /\ result = NoResult
    /\ toolPc = "call"
    /\ loadsIssued = {}
    /\ filesWritten = {}
    /\ response = NoResponse

\* handleGenerateResume up to its call of generateResume: the validation,
\* whose Error the CallTool handler turns into the response
HandleGenerateResume ==
    /\ toolPc = "call"
    /\ toolName = "generate-resume"
    /\ IF IsBlankJobDescription(hasJobDescription, argJobDescription)
       THEN /\ response' = ErrorResponse(ValidationError)
            /\ toolPc' = "responded"
       ELSE /\ toolPc' = "generateResume"
            /\ UNCHANGED response
    /\ UNCHANGED <<toolName, hasJobDescription, storageReadable, loadsIssued, filesWritten,
                   genVars, expVars, projVars, fnVars>>

\* handleGenerateAndConvertResume up to its call of generateResume
HandleGenerateAndConvertResume ==
    /\ toolPc = "call"
    /\ toolName = "generate-and-convert-resume"
    /\ toolPc' = "generateResume"
    /\ UNCHANGED <<toolName, hasJobDescription, storageReadable, loadsIssued, filesWritten,
                   response, genVars, expVars, projVars, fnVars>>

\* generateResume: the five loads of the Promise.all are issued
IssueLoads ==
    /\ toolPc = "generateResume"
    /\ loadsIssued' = loadsIssued \cup Resources
    /\ toolPc' = "loading"
    /\ UNCHANGED <<toolName, hasJobDescription, storageReadable, filesWritten, response,
                   genVars, expVars, projVars, fnVars>>

\* generateResume from the completion of the loads to its return: a load that
\* rejects and a read of a property of undefined both end in the catch
FinishGenerateResume ==
    /\ toolPc = "loading"
    /\ result' =
          IF ~storageReadable
          THEN [success |-> FALSE, latexContent |-> <<>>, metadata |-> <<>>, error |-> "ENOENT"]
          ELSE IF ~hasJobDescription
          THEN \* profile.profile_summary.career_highlights or jobDescription.toLowerCase()
               [success |-> FALSE, latexContent |-> <<>>, metadata |-> <<>>, error |-> "TypeError"]
          ELSE GenerateResumeResult(template, knowledgeBase, argJobDescription, argJobTitle)
    /\ toolPc' = "generated"
    /\ UNCHANGED <<toolName, hasJobDescription, storageReadable, loadsIssued, filesWritten,
                   response, template, lacks, knowledgeBase, argJobTitle, argJobDescription,
                   genPc, expVars, projVars, fnVars>>

\* (mutant) the .tex file is written before the result is looked at
GenerationFailedAfterWrite ==
    /\ toolPc = "generated"
    /\ ~result.success
    /\ filesWritten' = filesWritten \cup {"tex"}
    /\ response' = FailureResponse(GenerationError, result.error)
    /\ toolPc' = "responded"
    /\ UNCHANGED <<toolName, hasJobDescription, storageReadable, loadsIssued,
                   genVars, expVars, projVars, fnVars>>

\* `if (!result.success) throw`, in either handler
GenerationFailed ==
    /\ toolPc = "generated"
    /\ ~result.success
    /\ response' = FailureResponse(GenerationError, result.error)
    /\ toolPc' = "responded"
    /\ UNCHANGED <<toolName, hasJobDescription, storageReadable, loadsIssued, filesWritten,
                   genVars, expVars, projVars, fnVars>>

\* handleGenerateResume after a success: the .tex file is written
SaveLatex ==
    /\ toolPc = "generated"
    /\ toolName = "generate-resume"
    /\ result.success
    /\ filesWritten' = filesWritten \cup {"tex"}
    /\ response' = SuccessResponse
    /\ toolPc' = "responded"
    /\ UNCHANGED <<toolName, hasJobDescription, storageReadable, loadsIssued,
                   genVars, expVars, projVars, fnVars>>

\* handleGenerateAndConvertResume after a success: convertLatexToPdf writes the
\* .tex file, then pdflatex leaves a .pdf file or not
ConvertLatexToPdf ==
    /\ toolPc = "generated"
    /\ toolName = "generate-and-convert-resume"
    /\ result.success
    /\ \E pdfExists \in BOOLEAN :
          /\ filesWritten' = filesWritten \cup (IF pdfExists THEN {"tex", "pdf"} ELSE {"tex"})
          /\ response' = IF pdfExists THEN SuccessResponse ELSE ErrorResponse(ConversionError)
    /\ toolPc' = "responded"
    /\ UNCHANGED <<toolName, hasJobDescription, storageReadable, loadsIssued,
                   genVars, expVars, projVars, fnVars>>

ToolNext ==
    \/ HandleGenerateResume
    \/ HandleGenerateAndConvertResume
    \/ IssueLoads
    \/ FinishGenerateResume
    \/ GenerationFailed
    \/ SaveLatex
    \/ ConvertLatexToPdf

(***************************************************************************)
(* sanitizeLatex on its own, on every short text over the characters it    *)
(* escapes, the backslash and a letter.                                    *)
(***************************************************************************)
\* Longest text handed to sanitizeLatex.
MaxText == 2

SanChars == {"&", "%", "$", "#", "^", "~", "_", "{", "}", "\\", "a"}
SanTexts == SeqsUpTo(SanChars, MaxText)

SanIdle ==
    /\ sanText = <<>>
    /\ sanPc = "idle"
    /\ sanOut = <<>>

SanInit ==
    /\ sanText \in SanTexts
    /\ sanPc = "input"
    /\ sanOut = <<>>

Sanitize ==
    /\ sanPc = "input"
    /\ sanOut' = SanitizeLatex(sanText)
    /\ sanPc' = "done"
    /\ UNCHANGED <<sanText, selVars, skillVars, expVars, projVars, genVars, toolVars, moreVars>>

SanNext == Sanitize

(***************************************************************************)
(* selectRelevantExperience and selectRelevantProjects on their own, on    *)
(* knowledge bases of a few positions or a few projects.                   *)
(***************************************************************************)
\* Most positions of a knowledge base of plain positions.
MaxKbPositions == 5
\* Most projects of a knowledge base.
MaxKbProjects == 4

\* the names that tell the entries of a knowledge base apart
IndexNames == <<"1", "2", "3", "4", "5", "6", "7", "8", "9", "10", "11", "12">>

SelJobDescriptions ==
    { <<"R", "e", "a", "c", "t", ",", " ", "N", "o", "d", "e", ".", "j", "s", ",", " ", "A", "W", "S">>,
      <<"C", "I", "/", "C", "D", ",", " ", "N", "o", "d", "e", ".", "j", "s">> }

\* what a position says: description, technologies, achievements
PositionTexts ==
    { [description |-> << <<"L", "e", "d", " ", "s", "a", "l", "e", "s">> >>, technologies |-> <<>>, achievements |-> <<>>],
      [description |-> << <<"N", "o", "d", "e", ".", "j", "s", " ", "m", "i", "c", "r", "o", "s", "e", "r", "v", "i", "c", "e", "s">> >>, technologies |-> <<>>, achievements |-> <<>>],
      [description |-> << <<"n", "o", "d", "e", " ", "j", "s">>, <<"N", "o", "d", "e", "-", "J", "S">> >>,
       technologies |-> <<>>, achievements |-> <<>>],
      [description |-> << <<"B", "u", "i", "l", "t", " ", "U", "I">> >>,
       technologies |-> << <<"R", "e", "a", "c", "t">>, <<"A", "W", "S">> >>,
       achievements |-> << <<"A", "W", "S", " ", "b", "i", "l", "l", " ", "c", "u", "t">> >>],
      [description |-> << <<"c", "i", "-", "c", "d", " ", "C", "I", "/", "C", "D">> >>, technologies |-> <<>>, achievements |-> <<>>] }

Statuses == {"Current", "Completed"}

Titles ==
    { <<"S", "o", "f", "t", "w", "a", "r", "e", " ", "E", "n", "g", "i", "n", "e", "e", "r">>,
      <<"W", "e", "b", " ", "D", "E", "V", "E", "L", "O", "P", "E", "R">>,
      <<"M", "a", "n", "a", "g", "e", "r">> }

\* the position of the knowledge base at place i
KbPosition(text, status, title, i) ==
    [ company |-> <<IndexNames[i]>>,
      position |-> title,
      location |-> <<>>,
      duration |-> [start_date |-> <<>>, end_date |-> <<>>],
      status |-> status,
      description |-> text.description,
      technologies |-> text.technologies,
      achievements |-> text.achievements,
      hasAchievements |-> text.achievements # <<>> ]

PositionKinds == PositionTexts \X Statuses \X Titles

\* three plain kinds, of scores 0, 5 and 5 under either job description
PlainKinds ==
    { k \in PositionKinds :
        \/ k[1].description = << <<"L", "e", "d", " ", "s", "a", "l", "e", "s">> >> /\ k[3] = <<"M", "a", "n", "a", "g", "e", "r">>
        \/ k[1].description = << <<"N", "o", "d", "e", ".", "j", "s", " ", "m", "i", "c", "r", "o", "s", "e", "r", "v", "i", "c", "e", "s">> >> /\ k[2] = "Completed"
              /\ k[3] = <<"S", "o", "f", "t", "w", "a", "r", "e", " ", "E", "n", "g", "i", "n", "e", "e", "r">> }

\* the kinds of the knowledge bases of two positions
PairKinds ==
    { k \in PositionKinds :
        /\ k[1].technologies = <<>>
        /\ k[1].description[1][1] \in {"L", "N", "n"}
        /\ k[3] \in { <<"S", "o", "f", "t", "w", "a", "r", "e", " ", "E", "n", "g", "i", "n", "e", "e", "r">>,
                      <<"M", "a", "n", "a", "g", "e", "r">> } }

KbOfKinds(kinds) == [i \in DOMAIN kinds |-> KbPosition(kinds[i][1], kinds[i][2], kinds[i][3], i)]

\* the knowledge bases of positions: one of any kind, two of the pair kinds, more of
\* the plain kinds
PositionLists ==
    {KbOfKinds(kinds) : kinds \in {<<>>} \cup {<<k>> : k \in PositionKinds}
                                    \cup (PairKinds \X PairKinds)
                                    \cup SeqsUpTo(PlainKinds, MaxKbPositions)}

SelSummaries ==
    { <<"P", "l", "a", "i", "n", " ", "n", "o", "t", "e", "s", ".">>,
      <<"R", "e", "a", "c", "t", " ", "a", "p", "p", ".">>,
      <<"n", "o", "d", "e", " ", "j", "s", " ", "a", "n", "d", " ", "N", "o", "d", "e", "-", "J", "S", " ", "t", "o", "o", "l", ".">>,
      <<"A", "W", "S", " ", "a", "n", "d", " ", "R", "e", "a", "c", "t", " ", "o", "n", " ", "A", "W", "S", ",", " ", "C", "I", "/", "C", "D", ".">> }

\* loadAllProjects: each entry holds its project
ProjectLists ==
    {[i \in DOMAIN ss |->
        [title |-> <<IndexNames[i]>>, summary |-> ss[i], raw_summary |-> <<>>]] :
            ss \in SeqsUpTo(SelSummaries, MaxKbProjects)}

SelInit ==
    /\ selJobDescription \in SelJobDescriptions
    /\ \/ kbPositions \in PositionLists /\ kbProjects = <<>>
       \/ kbPositions = <<>> /\ kbProjects \in ProjectLists
    /\ selPc = "input"
    /\ pselPc = "input"
    /\ selected = <<>>
    /\ selectedProjects = <<>>

\* selectRelevantExperience
RunSelectRelevantExperience ==
    /\ selPc = "input"
    /\ selected' = SelectScoredExperience(kbPositions, selJobDescription)
    /\ selPc' = "done"
    /\ UNCHANGED <<kbPositions, kbProjects, selJobDescription, pselPc, selectedProjects,
                   sanVars, skillVars, expVars, projVars, genVars, toolVars, moreVars>>

\* selectRelevantProjects, which generateResume calls after selectRelevantExperience
RunSelectRelevantProjects ==
    /\ selPc = "done"
    /\ pselPc = "input"
    /\ selectedProjects' = SelectRelevantProjects(kbProjects, selJobDescription)
    /\ pselPc' = "done"
    /\ UNCHANGED <<kbPositions, kbProjects, selJobDescription, selPc, selected,
                   sanVars, skillVars, expVars, projVars, genVars, toolVars, moreVars>>

SelNext == RunSelectRelevantExperience \/ RunSelectRelevantProjects

SelIdle ==
    /\ kbPositions = <<>>
    /\ kbProjects = <<>>
    /\ selJobDescription = <<>>
    /\ selPc = "idle"
    /\ pselPc = "idle"
    /\ selected = <<>>
    /\ selectedProjects = <<>>

SkillIdle ==
    /\ kbCategories = <<>>
    /\ skillPc = "idle"
    /\ selectedSkills = <<>>
    /\ skillsBlock = <<>>

CacheIdle ==
    /\ kbResource = "none"
    /\ storage = <<>>
    /\ cache = <<>>
    /\ clears = 0
    /\ loads = <<>>
    /\ completedSinceClear = FALSE
    /\ startedSinceClear = FALSE
    /\ lastData = <<>>

LoadIdle ==
    /\ failingLoads = {}
    /\ loadState = <<>>
    /\ runPc = "idle"
    /\ stepsRun = {}
    /\ runResult = "none"

HeapIdle ==
    /\ heap = <<>>
    /\ loadedHeap = <<>>
    /\ heapPc = 0
    /\ heapOut = <<>>

SpliceIdle ==
    /\ spDoc = <<>>
    /\ spBlock = <<>>
    /\ spPc = "idle"
    /\ spOnce = <<>>
    /\ spTwice = <<>>

KwIdle ==
    /\ kwText = <<>>
    /\ kwPc = "idle"
    /\ kwOut = <<>>
    /\ kwAgain = <<>>

MoreIdle == CacheIdle /\ LoadIdle /\ HeapIdle /\ SpliceIdle /\ KwIdle

FnIdle == SanIdle /\ SelIdle /\ SkillIdle /\ MoreIdle

CoreIdle == ExpIdle /\ ProjIdle /\ GenIdle /\ ToolIdle /\ SanIdle /\ SelIdle /\ SkillIdle

(***************************************************************************)
(* The specifications.                                                     *)
(***************************************************************************)
InitExp == ExpInit /\ ProjIdle /\ GenIdle /\ ToolIdle /\ FnIdle
SpecExp == InitExp /\ [][ExpNext]_vars

InitProj == ProjInit /\ ExpIdle /\ GenIdle /\ ToolIdle /\ FnIdle
SpecProj == InitProj /\ [][ProjNext]_vars

InitGen == GenInit /\ ExpIdle /\ ProjIdle /\ ToolIdle /\ FnIdle
SpecGen == InitGen /\ [][GenNext]_vars

InitTool == ToolInit /\ ExpIdle /\ ProjIdle /\ FnIdle
SpecTool == InitTool /\ [][ToolNext]_vars

InitSan == SanInit /\ SelIdle /\ SkillIdle /\ ExpIdle /\ ProjIdle /\ GenIdle /\ ToolIdle /\ MoreIdle
SpecSan == InitSan /\ [][SanNext]_vars

InitSel == SelInit /\ SanIdle /\ SkillIdle /\ ExpIdle /\ ProjIdle /\ GenIdle /\ ToolIdle /\ MoreIdle
SpecSel == InitSel /\ [][SelNext]_vars

(***************************************************************************)
(* What the claims about the spliced document speak of.                    *)
(***************************************************************************)
\* the first place at or after `from` where `piece` stands in doc, 0 if none;
\* a 0 is handed on
NextPiece(doc, piece, from) == IF from = 0 THEN 0 ELSE IndexFrom(doc, piece, from)
After(at, piece) == IF at = 0 THEN 0 ELSE at + Len(piece)

\* doc is the template with nothing but its four inner spans changed: the
\* five stretches of template text around the spans stand in doc in order,
\* the first at its start and the last at its end.  (Taking each stretch at
\* its first place after the one before it loses no decomposition.)
FramePreserved(doc) ==
    LET a1 == IF Len(doc) >= Len(TemplateHead)
                   /\ SubSeq(doc, 1, Len(TemplateHead)) = TemplateHead
              THEN 1 ELSE 0
        a2 == NextPiece(doc, TemplateAfterSummary, After(a1, TemplateHead))
        a3 == NextPiece(doc, TemplateAfterExperience, After(a2, TemplateAfterSummary))
        a4 == NextPiece(doc, TemplateAfterProjects, After(a3, TemplateAfterExperience))
        end == After(a4, TemplateAfterProjects)
    IN  /\ end # 0
        /\ end <= Len(doc) - Len(TemplateTail) + 1
        /\ SubSeq(doc, Len(doc) - Len(TemplateTail) + 1, Len(doc)) = TemplateTail

\* the text the template holds in the inner span of a region
OldContent(region) ==
    CASE region = "Summary" -> OldSummary
      [] region = "Experience" -> OldExperience
      [] region = "Projects" -> OldProjects
      [] region = "Skills" -> OldSkills

\* doc still holds the template's own text of the region
HoldsOldContent(doc, region) == Includes(doc, OldContent(region))

Regions == {"Summary", "Experience", "Projects", "Skills"}

(***************************************************************************)
(* C1: for a template that holds the summary sentinel and every region     *)
(* marker, and for every selected content, the returned document differs   *)
(* from the template only inside the four dynamic regions: the template    *)
(* text outside the inner spans, markers included, is present unchanged    *)
(* and in order.                                                           *)
(***************************************************************************)
C1_OnlyTheRegionsChange ==
    (genPc = "done" /\ result.success /\ lacks = <<"none", "nothing">>)
    => FramePreserved(result.latexContent)

(***************************************************************************)
(* C2: when the template lacks the summary sentinel or a start or end      *)
(* marker of a region, generation ends in a failure; it never returns a    *)
(* success whose document still holds the template's text of that region.  *)
(***************************************************************************)
C2_MissingMarkerFailsLoudly ==
    (genPc = "done" /\ lacks[1] \in Regions)
    => ~(result.success /\ HoldsOldContent(result.latexContent, lacks[1]))

(***************************************************************************)
(* C3: every result of generateResume is a failure or a document whose     *)
(* four regions all hold newly rendered content; no success has a region   *)
(* that still holds the template's original content.                       *)
(***************************************************************************)
C3_NoPartlySplicedSuccess ==
    (genPc = "done" /\ result.success)
    => \A region \in Regions : ~HoldsOldContent(result.latexContent, region)

(***************************************************************************)
(* C4: for generate-resume and generate-and-convert-resume, a job          *)
(* description that is missing, empty or all whitespace is rejected with   *)
(* the validation error, before any knowledge-base load is issued and      *)
(* before any output file is written.                                      *)
(***************************************************************************)
C4_BlankJobDescriptionRejectedFirst ==
    (toolPc \notin {"idle", "call"}
        /\ IsBlankJobDescription(hasJobDescription, argJobDescription))
    => /\ toolPc = "responded"
       /\ response = ErrorResponse(ValidationError)
       /\ loadsIssued = {}
       /\ filesWritten = {}

(***************************************************************************)
(* C5: a position with 3 or more description and achievement strings       *)
(* together comes back with exactly 3 bullets, and with its first 3        *)
(* descriptions in order when it has 3 or more descriptions.               *)
(***************************************************************************)
C5_ExactlyThreeBullets ==
    (expPc = "done"
        /\ Len(position.description) + Len(position.achievements) >= 3)
    => /\ Len(expBullets) = 3
       /\ Len(position.description) >= 3
            => expBullets = SubSeq(position.description, 1, 3)

C5_Witness ==
    /\ expPc = "done"
    /\ Len(position.description) = 1
    /\ Len(position.achievements) = 2
    /\ Len(expBullets) = 3
    /\ expBullets[3] = Achieved(position.achievements[2])

(***************************************************************************)
(* C6: a position with d descriptions and a achievements, d + a < 3, comes *)
(* back with exactly d + a bullets: the descriptions, then 'Achieved ' +   *)
(* each achievement in order.                                              *)
(***************************************************************************)
C6_ShortPositionKeepsItsOwnBullets ==
    (expPc = "done"
        /\ Len(position.description) + Len(position.achievements) < 3)
    => expBullets = position.description
            \o [i \in 1..Len(position.achievements) |->
                    Achieved(position.achievements[i])]

(***************************************************************************)
(* C7: every bullet of a returned position is one of its own description   *)
(* strings or 'Achieved ' + one of its own achievement strings.            *)
(***************************************************************************)
C7_BulletsComeFromKnowledgeBase ==
    expPc = "done"
    => \A i \in DOMAIN expBullets :
          \/ \E j \in DOMAIN position.description :
                expBullets[i] = position.description[j]
          \/ \E j \in DOMAIN position.achievements :
                expBullets[i] = Achieved(position.achievements[j])

(***************************************************************************)
(* What the claims about project bullets speak of.                         *)
(***************************************************************************)
\* the fragments of the summary of `project`, as split on '.' and '!'
Fragments == SplitSentences(ProjectSummary(project))
\* those of at least n characters, blanks at the ends not counted
FragmentsOfAtLeast(n) == SelectSeq(Fragments, LAMBDA f : Len(Trim(f)) >= n)
OnlyAsterisks(f) == \A i \in DOMAIN Trim(f) : Trim(f)[i] = "*"
\* the metadata says more than the counts and the two fixed flags
DegradedRecorded(md) ==
    \E k \in DOMAIN md :
        k \notin {"jobTitle", "generatedAt", "experienceCount", "projectCount",
                  "skillCategories", "atsOptimized", "singlePage"}

C9_TechnicalFragmentTakenFirst ==
    LET S == FragmentsOfAtLeast(21)
        T == SelectSeq(S, IsTechnical)
        N == SelectSeq(S, LAMBDA f : ~IsTechnical(f))
    IN  (projPc = "done" /\ Len(S) >= 2 /\ Len(T) = 1)
        => {projBullets[i] : i \in DOMAIN projBullets}
              = {CleanBullet(T[1]), CleanBullet(N[1])}

(***************************************************************************)
(* C9 amended: when at least 2 kept fragments are technical the bullets    *)
(* are the first 2 technical fragments; otherwise they are the first 2     *)
(* kept fragments in summary order, technical or not (each trimmed and     *)
(* without leading asterisks, dropped when nothing is left of it).         *)
(***************************************************************************)
C9_FallbackIsSummaryOrder ==
    LET S == FragmentsOfAtLeast(21)
        T == SelectSeq(S, IsTechnical)
        raw == IF Len(T) >= 2 THEN <<T[1], T[2]>>
               ELSE [i \in 1..Min(2, Len(S)) |-> S[i]]
    IN  projPc = "done"
        => projBullets = SelectSeq([i \in DOMAIN raw |-> CleanBullet(raw[i])], NonEmpty)

C9_Witness ==
    LET S == FragmentsOfAtLeast(21)
        T == SelectSeq(S, IsTechnical)
    IN  /\ projPc = "done"
        /\ Len(S) = 3 /\ Len(T) = 1 /\ T[1] = S[3]
        /\ projBullets = <<CleanBullet(S[1]), CleanBullet(S[2])>>

(***************************************************************************)
(* C10: a summary with one fragment of at least 20 characters and no       *)
(* technical term never gives exactly 1 bullet unless the metadata of the  *)
(* result records the degraded case.                                       *)
(***************************************************************************)
C10_SingleBulletIsRecorded ==
    (projPc = "done"
        /\ Len(FragmentsOfAtLeast(20)) = 1
        /\ ~IsTechnical(ProjectSummary(project)))
    => (Len(projBullets) # 1 \/ DegradedRecorded(metadata))

(***************************************************************************)
(* C11: every string of the knowledge base or the request that is put in   *)
(* the document passed through sanitizeLatex, so that no ampersand and no  *)
(* underscore of source data stands in the document without a backslash    *)
(* before it.  (The template of the model holds neither character.)        *)
(***************************************************************************)
\* the places of doc that hold an ampersand or underscore with no backslash before
RawSpecials(doc) ==
    {i \in DOMAIN doc : doc[i] \in {"&", "_"} /\ (i = 1 \/ doc[i - 1] # "\\")}

C11_NoRawSpecialInDocument ==
    (genPc = "done" /\ result.success) => RawSpecials(result.latexContent) = {}


(***************************************************************************)
(* C12: sanitizeLatex returns the images of the characters of its input,   *)
(* one after the other: & % $ # _ { } each with a backslash before it,     *)
(* ^ as \^{} and ~ as \~{}, every other character itself; the braces made  *)
(* for a caret or tilde are not escaped again.                             *)
(***************************************************************************)
\* the image of one character, as the claim gives it
CharImage(c) ==
    IF c \in {"&", "%", "$", "#", "_", "{", "}"} THEN <<"\\", c>>
    ELSE IF c \in {"^", "~"} THEN <<"\\", c, "{", "}">>
    ELSE <<c>>

C12_SanitizeIsPerCharacter ==
    sanPc = "done" => sanOut = Flatten([i \in DOMAIN sanText |-> CharImage(sanText[i])])


(***************************************************************************)
(* What the claims about scores and selection speak of.                    *)
(***************************************************************************)
\* the keywords extracted from the job description of the selection
SelKeywords == ExtractJobKeywords(selJobDescription)

\* the place in the knowledge base of a selected position, of a selected project
KbIndex(e) == CHOOSE i \in DOMAIN kbPositions : kbPositions[i].company = e.pos.company
KbProjectIndex(p) == CHOOSE i \in DOMAIN kbProjects : kbProjects[i].title = p.title

\* the joined text of a position: description, technologies and achievements
JoinedText(pos) ==
    Join(<< Join(pos.description, <<" ">>), Join(pos.technologies, <<" ">>),
            Join(pos.achievements, <<" ">>) >>, <<" ">>)

\* the number of places of text where keyword stands, letter case apart, every
\* character of the keyword standing for itself
LiteralCount(text, keyword) ==
    Cardinality({i \in 1..(Len(text) - Len(keyword) + 1) :
        SubSeq(ToLowerCase(text), i, i + Len(keyword) - 1) = ToLowerCase(keyword)})

RECURSIVE LiteralScore(_, _)
LiteralScore(text, keywords) ==
    IF keywords = <<>> THEN 0
    ELSE 2 * LiteralCount(text, Head(keywords)) + LiteralScore(text, Tail(keywords))

\* text holds word, letter case apart
ContainsAnyCase(text, word) == LiteralCount(text, word) > 0

\* the bonuses of a position: 5 for the status Current, 3 for the title
Bonus(pos) ==
    (IF pos.status = "Current" THEN 5 ELSE 0)
      + (IF ContainsAnyCase(pos.position, <<"e", "n", "g", "i", "n", "e", "e", "r">>)
            \/ ContainsAnyCase(pos.position, <<"d", "e", "v", "e", "l", "o", "p", "e", "r">>)
         THEN 3 ELSE 0)

(***************************************************************************)
(* C13: the keyword part of the score of a position (its score less its    *)
(* bonuses) and the score of a project are the sum over the keywords of    *)
(* 2 x the number of literal occurrences of the keyword in the joined      *)
(* text, letter case apart, the '.' of 'node.js' standing for itself.      *)
(***************************************************************************)
C13_KeywordPartCountsLiteralOccurrences ==
    /\ selPc = "done" =>
          \A i \in DOMAIN selected :
              selected[i].relevanceScore - Bonus(kbPositions[KbIndex(selected[i])])
                  = LiteralScore(JoinedText(kbPositions[KbIndex(selected[i])]), SelKeywords)
    /\ pselPc = "done" =>
          \A i \in DOMAIN selectedProjects :
              selectedProjects[i].relevanceScore
                  = LiteralScore(ProjectSummary(kbProjects[KbProjectIndex(selectedProjects[i])]),
                                 SelKeywords)

(***************************************************************************)
(* C14: the score of a position is its keyword part, plus 5 when its       *)
(* status is Current, plus 3 when its title holds 'engineer' or            *)
(* 'developer' in any letter case, and nothing else; the score of a        *)
(* project is its keyword part alone; every score is a natural number.     *)
(***************************************************************************)
C14_ScoreIsKeywordPartPlusBonuses ==
    /\ selPc = "done" =>
          \A i \in DOMAIN selected :
              LET pos == kbPositions[KbIndex(selected[i])] IN
              /\ selected[i].relevanceScore
                    = KeywordScore(ToLowerCase(JoinedText(pos)), SelKeywords) + Bonus(pos)
              /\ selected[i].relevanceScore \in Nat
    /\ pselPc = "done" =>
          \A i \in DOMAIN selectedProjects :
              LET proj == kbProjects[KbProjectIndex(selectedProjects[i])] IN
              /\ selectedProjects[i].relevanceScore
                    = KeywordScore(ToLowerCase(ProjectSummary(proj)), SelKeywords)
              /\ selectedProjects[i].relevanceScore \in Nat

C14_Witness ==
    /\ selPc = "done"
    /\ Len(selected) = 1
    /\ selected[1].pos.status = "Current"
    /\ selected[1].pos.position = <<"W", "e", "b", " ", "D", "E", "V", "E", "L", "O", "P", "E", "R">>
    /\ selected[1].pos.technologies # <<>>
    /\ selected[1].relevanceScore > 8

(***************************************************************************)
(* C15: in the list selectRelevantExperience returns, of two positions     *)
(* with equal scores a Current one precedes a Completed one, and two of    *)
(* the same status keep their knowledge-base order.                        *)
(***************************************************************************)
C15_TiesPreferCurrent ==
    selPc = "done" =>
        \A i, j \in DOMAIN selected :
            (i < j /\ selected[i].relevanceScore = selected[j].relevanceScore)
            => /\ ~(selected[i].pos.status = "Completed" /\ selected[j].pos.status = "Current")
               /\ selected[i].pos.status = selected[j].pos.status
                    => KbIndex(selected[i]) < KbIndex(selected[j])

(***************************************************************************)
(* C16: selectRelevantExperience returns min(4, number of positions)       *)
(* positions of the knowledge base, their scores never increasing, and no  *)
(* position left out has a higher score than one that was selected.        *)
(***************************************************************************)
C16_TopFourByScore ==
    selPc = "done" =>
        LET chosen == {KbIndex(selected[i]) : i \in DOMAIN selected} IN
        /\ Len(selected) = Min(4, Len(kbPositions))
        /\ Cardinality(chosen) = Len(selected)
        /\ \A i \in DOMAIN selected :
              selected[i].pos.company = kbPositions[KbIndex(selected[i])].company
        /\ \A i, j \in DOMAIN selected :
              i < j => selected[i].relevanceScore >= selected[j].relevanceScore
        /\ \A k \in DOMAIN kbPositions \ chosen : \A i \in DOMAIN selected :
              CalculateRelevanceScore(kbPositions[k], SelKeywords) <= selected[i].relevanceScore

C16_Witness ==
    /\ selPc = "done"
    /\ Len(kbPositions) = 5
    /\ Len(selected) = 4
    /\ KbIndex(selected[1]) = 3
    /\ KbIndex(selected[4]) = 1
    /\ selected[1].relevanceScore > selected[4].relevanceScore
    /\ \A i \in DOMAIN selected : KbIndex(selected[i]) # 2

(***************************************************************************)
(* C17: selectRelevantProjects returns min(3, number of projects)          *)
(* projects, their scores never increasing, no project left out scoring    *)
(* higher than a selected one, and projects of equal score in their        *)
(* knowledge-base order.                                                   *)
(***************************************************************************)
C17_TopThreeProjectsStable ==
    pselPc = "done" =>
        LET chosen == {KbProjectIndex(selectedProjects[i]) : i \in DOMAIN selectedProjects} IN
        /\ Len(selectedProjects) = Min(3, Len(kbProjects))
        /\ Cardinality(chosen) = Len(selectedProjects)
        /\ \A i, j \in DOMAIN selectedProjects :
              i < j =>
                /\ selectedProjects[i].relevanceScore >= selectedProjects[j].relevanceScore
                /\ selectedProjects[i].relevanceScore = selectedProjects[j].relevanceScore
                     => KbProjectIndex(selectedProjects[i]) < KbProjectIndex(selectedProjects[j])
        /\ \A k \in DOMAIN kbProjects \ chosen : \A i \in DOMAIN selectedProjects :
              CalculateProjectRelevanceScore(kbProjects[k], SelKeywords)
                  <= selectedProjects[i].relevanceScore

C17_Witness ==
    /\ pselPc = "done"
    /\ Len(kbProjects) = 4
    /\ Len(selectedProjects) = 3
    /\ KbProjectIndex(selectedProjects[1]) = 4
    /\ KbProjectIndex(selectedProjects[2]) = 2
    /\ KbProjectIndex(selectedProjects[3]) = 3
    /\ selectedProjects[2].relevanceScore = selectedProjects[3].relevanceScore
    /\ selectedProjects[1].relevanceScore > selectedProjects[2].relevanceScore

(***************************************************************************)
(* C18: with a job description that holds 'React, Node.js, AWS', one       *)
(* Current position whose text mentions 'Node.js microservices' and one    *)
(* Completed position whose text holds no extracted keyword, the Current   *)
(* position scores strictly more than the Completed one and is first in    *)
(* the selected list, whatever their titles and knowledge-base order.      *)
(***************************************************************************)
C18_CurrentNodePositionFirst ==
    (/\ selPc = "done"
     /\ ContainsAnyCase(selJobDescription, <<"R", "e", "a", "c", "t", ",", " ", "N", "o", "d", "e", ".", "j", "s", ",", " ", "A", "W", "S">>)
     /\ Len(kbPositions) = 2)
    => \A c, d \in DOMAIN selected :
          (/\ selected[c].pos.status = "Current"
           /\ ContainsAnyCase(JoinedText(kbPositions[KbIndex(selected[c])]), <<"N", "o", "d", "e", ".", "j", "s", " ", "m", "i", "c", "r", "o", "s", "e", "r", "v", "i", "c", "e", "s">>)
           /\ selected[d].pos.status = "Completed"
           /\ LiteralScore(JoinedText(kbPositions[KbIndex(selected[d])]), SelKeywords) = 0)
          => /\ selected[c].relevanceScore > selected[d].relevanceScore
             /\ c = 1


(***************************************************************************)
(* selectRelevantSkills and buildSkillsSection, applied to a knowledge     *)
(* base of two skill categories: programming_languages with up to          *)
(* MaxSkills skills, each either matching the keyword 'aws' by its name    *)
(* or proficient without a match, and databases with a few short lists.    *)
(***************************************************************************)
MaxSkills == 9

SkillJobDescriptions == { <<"A", "W", "S", " ", "t", "e", "a", "m">>, <<"D", "o", "c", "s", " ", "t", "e", "a", "m">> }

\* a Beginner skill whose name holds the keyword 'aws'
KeywordSkill(i) ==
    [name |-> <<"A", "W", "S", "-", IndexNames[i]>>, proficiency |-> "Beginner", context |-> <<>>]

\* an Advanced skill that matches no keyword
ProficientSkill(i) ==
    [name |-> <<"G", "o", "-", IndexNames[i]>>, proficiency |-> "Advanced", context |-> <<>>]

ProgrammingLists ==
    { [i \in DOMAIN kinds |->
          IF kinds[i] = "K" THEN KeywordSkill(i) ELSE ProficientSkill(i)] :
       kinds \in SeqsUpTo({"K", "P"}, MaxSkills) }

ContextSkill ==
    [name |-> <<"S", "Q", "L">>, proficiency |-> "Beginner",
     context |-> << <<"t", "u", "n", "i", "n", "g">>, <<"R", "D", "S", " ", "o", "n", " ", "A", "w", "s">> >>]
BeginnerSkill ==
    [name |-> <<"R", "_", "D", "B">>, proficiency |-> "Beginner",
     context |-> << <<"c", "a", "c", "h", "e">> >>]
IntermediateSkill ==
    [name |-> <<"D", "b", "2">>, proficiency |-> "Intermediate", context |-> <<>>]
ExpertSkill ==
    [name |-> <<"O", "r", "a">>, proficiency |-> "Expert", context |-> <<>>]

DatabaseLists ==
    { <<>>, <<BeginnerSkill>>, <<ContextSkill, BeginnerSkill>>, <<BeginnerSkill, IntermediateSkill>>,
      <<ExpertSkill, BeginnerSkill>> }

SkillInit ==
    /\ selJobDescription \in SkillJobDescriptions
    /\ \E prog \in ProgrammingLists, db \in DatabaseLists :
          kbCategories = [c \in {"programming_languages", "databases"} |->
                             [skills |-> IF c = "databases" THEN db ELSE prog]]
    /\ skillPc = "input"
    /\ selectedSkills = <<>>
    /\ skillsBlock = <<>>
    /\ kbPositions = <<>>
    /\ kbProjects = <<>>
    /\ selPc = "idle"
    /\ pselPc = "idle"
    /\ selected = <<>>
    /\ selectedProjects = <<>>

\* generateResume: const selectedSkills = this.selectRelevantSkills(...)
RunSelectRelevantSkills ==
    /\ skillPc = "input"
    /\ selectedSkills' = SelectRelevantSkills(kbCategories, selJobDescription)
    /\ skillPc' = "selected"
    /\ UNCHANGED <<kbCategories, skillsBlock, selVars, sanVars, expVars, projVars, genVars,
                   toolVars, moreVars>>

\* buildLatexResume: const skillsSection = this.buildSkillsSection(skills)
RunBuildSkillsSection ==
    /\ skillPc = "selected"
    /\ skillsBlock' = BuildSkillsSection(selectedSkills)
    /\ skillPc' = "done"
    /\ UNCHANGED <<kbCategories, selectedSkills, selVars, sanVars, expVars, projVars, genVars,
                   toolVars, moreVars>>

SkillNext == RunSelectRelevantSkills \/ RunBuildSkillsSection

InitSkills == SkillInit /\ SanIdle /\ ExpIdle /\ ProjIdle /\ GenIdle /\ ToolIdle /\ MoreIdle

SpecSkills == InitSkills /\ [][SkillNext]_vars

\* skill matches one of the keywords by its name or by a context; is proficient
MatchesKeyword(skill, keywords) ==
    \E k \in DOMAIN keywords :
        \/ ContainsAnyCase(skill.name, keywords[k])
        \/ \E c \in DOMAIN skill.context : ContainsAnyCase(skill.context[c], keywords[k])
IsProficient(skill) == skill.proficiency = "Advanced" \/ skill.proficiency = "Intermediate"

\* the skills of category c of the knowledge base that pass the filter
PassingWith(c, keywords) ==
    {i \in DOMAIN kbCategories[c].skills :
        MatchesKeyword(kbCategories[c].skills[i], keywords)
          \/ IsProficient(kbCategories[c].skills[i])}
Passing(c) == PassingWith(c, SelKeywords)

\* the label of the line of the skills block that lists category c
CategoryLabel(c) ==
    IF c = "databases" THEN <<"Databases ", "\\", "&", " Cloud:">> ELSE <<"Programming Languages:">>

(***************************************************************************)
(* C19: every category of the result of selectRelevantSkills holds between *)
(* 1 and 8 skills of that category, each one matching a keyword by name or *)
(* context or being Advanced or Intermediate; a category none of whose     *)
(* skills passes is absent from the result and from the skills block.      *)
(***************************************************************************)
C19_KeptSkillsQualifyAtMostEight ==
    LET keywords == SelKeywords IN
    /\ skillPc \in {"selected", "done"} =>
          /\ \A c \in DOMAIN selectedSkills :
                LET kept == selectedSkills[c].skills IN
                /\ c \in DOMAIN kbCategories
                /\ Len(kept) >= 1 /\ Len(kept) <= 8
                /\ \A i \in DOMAIN kept :
                      /\ \E k \in DOMAIN kbCategories[c].skills : kbCategories[c].skills[k] = kept[i]
                      /\ MatchesKeyword(kept[i], keywords) \/ IsProficient(kept[i])
          /\ \A c \in DOMAIN kbCategories :
                PassingWith(c, keywords) = {} => c \notin DOMAIN selectedSkills
    /\ skillPc = "done" =>
          \A c \in DOMAIN kbCategories :
              PassingWith(c, keywords) = {} =>
                  \A i \in DOMAIN kbCategories[c].skills :
                      ~Includes(skillsBlock, SanitizeLatex(kbCategories[c].skills[i].name))

C19_Witness ==
    /\ skillPc = "done"
    /\ Cardinality(Passing("programming_languages")) = 9
    /\ Len(selectedSkills["programming_languages"].skills) = 8
    /\ kbCategories["databases"].skills = <<BeginnerSkill>>
    /\ "databases" \notin DOMAIN selectedSkills
    /\ Includes(skillsBlock, CategoryLabel("programming_languages"))
    /\ ~Includes(skillsBlock, CategoryLabel("databases"))

(***************************************************************************)
(* C20: when more than 8 skills of a category pass the filter, a skill     *)
(* that matches a keyword is never dropped while a skill that passes by    *)
(* its proficiency alone is retained.                                      *)
(***************************************************************************)
C20_KeywordMatchesKeptFirst ==
    skillPc \in {"selected", "done"} =>
        LET keywords == SelKeywords IN
        \A c \in DOMAIN kbCategories :
            Cardinality(PassingWith(c, keywords)) > 8 =>
                LET all == kbCategories[c].skills
                    retained == {i \in DOMAIN all :
                                    /\ c \in DOMAIN selectedSkills
                                    /\ \E k \in DOMAIN selectedSkills[c].skills :
                                          selectedSkills[c].skills[k] = all[i]}
                IN  \A i, j \in DOMAIN all :
                        (/\ MatchesKeyword(all[i], keywords)
                         /\ ~MatchesKeyword(all[j], keywords)
                         /\ j \in retained)
                        => i \in retained


(***************************************************************************)
(* KnowledgeBaseManager: the loads of one resource, readJsonFile and its   *)
(* cache, clearCache, and the files of the knowledge base being edited     *)
(* while the server runs.                                                  *)
(***************************************************************************)
\* Most calls of the load method of the resource.
MaxLoads == 3
\* Most calls of clearCache.
MaxClears == 1
\* Most edits of one file.
MaxEdits == 1

\* the files each load method reads, in the order it reads them; the index of
\* the projects names one project file
FilesOf(resource) ==
    CASE resource = "profile" -> <<"profile_summary.json">>
      [] resource = "workExperience" -> <<"work_experience.json">>
      [] resource = "skills" -> <<"skills.json">>
      [] resource = "projects" -> <<"00_index.json", "project.json">>
      [] resource = "template" -> <<"Tushin_Resume_SYS.tex">>

\* loadLatexTemplate calls fs.readFile, the other loads call readJsonFile
UsesCache(resource) == resource # "template"

\* the cache holds nothing for a file
NoEntry == [data |-> -1, readAfter |-> -1]

NewLoad ==
    [pc |-> "new", k |-> 1, got |-> <<>>, reads |-> 0, pending |-> NoEntry,
     startedAfter |-> 0, warm |-> FALSE, first |-> FALSE, expect |-> <<>>]

\* the content a load returned, file by file
DataOf(got) == [j \in DOMAIN got |-> got[j].data]

RECURSIVE Advance(_, _)
\* a load from its file k on: `if (this.cache.has(filePath)) return this.cache.get(filePath)`
\* for as long as the cache answers, then the read of the first file it lacks
Advance(load, c) ==
    IF load.k > Len(FilesOf(kbResource)) THEN [load EXCEPT !.pc = "returned"]
    ELSE LET file == FilesOf(kbResource)[load.k] IN
         IF UsesCache(kbResource) /\ c[file] # NoEntry
         THEN Advance([load EXCEPT !.got = Append(@, c[file]), !.k = @ + 1], c)
         ELSE [load EXCEPT !.pc = "started", !.reads = @ + 1]

CacheInit ==
    /\ kbResource \in Resources
    /\ storage = [f \in {FilesOf(kbResource)[j] : j \in DOMAIN FilesOf(kbResource)} |-> 0]
    /\ cache = [f \in DOMAIN storage |-> NoEntry]
    /\ clears = 0
    /\ loads = [i \in 1..MaxLoads |-> NewLoad]
    /\ completedSinceClear = FALSE
    /\ startedSinceClear = FALSE
    /\ lastData = <<>>

\* what the return of a load leaves behind
Returns(load) ==
    IF load.pc = "returned"
    THEN completedSinceClear' = TRUE /\ lastData' = DataOf(load.got)
    ELSE UNCHANGED <<completedSinceClear, lastData>>

\* a load method is called: it runs to its first read of storage, or to its
\* return when the cache answers for every file
StartLoad(i) ==
    /\ loads[i].pc = "new"
    /\ IF i = 1 THEN TRUE ELSE loads[i - 1].pc # "new"
    /\ LET load == Advance([loads[i] EXCEPT !.startedAfter = clears,
                                            !.warm = completedSinceClear,
                                            !.first = (clears > 0 /\ ~startedSinceClear),
                                            !.expect = lastData], cache)
       IN  /\ loads' = [loads EXCEPT ![i] = load]
           /\ Returns(load)
    /\ startedSinceClear' = TRUE
    /\ UNCHANGED <<kbResource, storage, cache, clears, coreVars, loadVars, heapVars,
                   spliceVars, kwVars>>

\* fs.readJson or fs.readFile reads the file as it is now
ReadFile(i) ==
    /\ loads[i].pc = "started"
    /\ loads' = [loads EXCEPT ![i].pc = "read",
                              ![i].pending = [data |-> storage[FilesOf(kbResource)[loads[i].k]],
                                              readAfter |-> clears]]
    /\ UNCHANGED <<kbResource, storage, cache, clears, completedSinceClear, startedSinceClear,
                   lastData, coreVars, loadVars, heapVars, spliceVars, kwVars>>

\* the read completes: `this.cache.set(filePath, data)` in readJsonFile, and the
\* load goes on to its next file or returns
CompleteRead(i) ==
    /\ loads[i].pc = "read"
    /\ LET file == FilesOf(kbResource)[loads[i].k]
           stored == IF UsesCache(kbResource)
                     THEN [cache EXCEPT ![file] = loads[i].pending]
                     ELSE cache
           load == Advance([loads[i] EXCEPT !.got = Append(@, loads[i].pending),
                                            !.k = @ + 1,
                                            !.pending = NoEntry], stored)
       IN  /\ cache' = stored
           /\ loads' = [loads EXCEPT ![i] = load]
           /\ Returns(load)
    /\ UNCHANGED <<kbResource, storage, clears, startedSinceClear, coreVars, loadVars,
                   heapVars, spliceVars, kwVars>>

\* clearCache, called by handleRefreshKnowledgeBase
ClearCache ==
    /\ clears < MaxClears
    /\ cache' = [f \in DOMAIN cache |-> NoEntry]
    /\ clears' = clears + 1
    /\ completedSinceClear' = FALSE
    /\ startedSinceClear' = FALSE
    /\ UNCHANGED <<kbResource, storage, loads, lastData, coreVars, loadVars, heapVars,
                   spliceVars, kwVars>>

\* the user edits a file of the knowledge base
EditStorage(file) ==
    /\ storage[file] < MaxEdits
    /\ storage' = [storage EXCEPT ![file] = @ + 1]
    /\ UNCHANGED <<kbResource, cache, clears, loads, completedSinceClear, startedSinceClear,
                   lastData, coreVars, loadVars, heapVars, spliceVars, kwVars>>

CacheNext ==
    \/ \E i \in 1..MaxLoads : StartLoad(i) \/ ReadFile(i) \/ CompleteRead(i)
    \/ ClearCache
    \/ \E file \in DOMAIN storage : EditStorage(file)

InitCache == CacheInit /\ CoreIdle /\ LoadIdle /\ HeapIdle /\ SpliceIdle /\ KwIdle

SpecCache == InitCache /\ [][CacheNext]_vars

(***************************************************************************)
(* C21: for each of the five resources, a load called after a load has     *)
(* returned, with no clearCache in between, reads no storage and returns   *)
(* what that load returned; the first load called after a clearCache       *)
(* reads storage.                                                          *)
(***************************************************************************)
C21_LoadedOnceUntilCleared ==
    \A i \in DOMAIN loads :
        loads[i].pc = "returned" =>
            /\ loads[i].warm => loads[i].reads = 0 /\ DataOf(loads[i].got) = loads[i].expect
            /\ loads[i].first => loads[i].reads >= 1

(***************************************************************************)
(* C22: whatever the interleaving, a load called after clearCache returned *)
(* returns content read from storage after that clearCache.                *)
(***************************************************************************)
C22_NoStaleDataAfterClear ==
    \A i \in DOMAIN loads :
        loads[i].pc = "returned" =>
            \A j \in DOMAIN loads[i].got : loads[i].got[j].readAfter >= loads[i].startedAfter


(***************************************************************************)
(* generateResume: the Promise.all of the five loads, then the steps that  *)
(* use what was loaded, then the return; the catch on a load that rejects. *)
(***************************************************************************)
\* the steps of generateResume after its loads, in the order of the source
StepsAfterLoads ==
    <<"generateTailoredSummary", "selectRelevantExperience", "selectRelevantSkills",
      "selectRelevantProjects", "buildLatexResume">>

\* a wait that ends as soon as one load is fulfilled
AnyFulfilled(promises) == \E r \in DOMAIN promises : promises[r] = "fulfilled"

\* `await Promise.all([...])` resumes with the values once every load is fulfilled
AllFulfilled(promises) == \A r \in DOMAIN promises : promises[r] = "fulfilled"

\* and throws as soon as one load is rejected
SomeRejected(promises) == \E r \in DOMAIN promises : promises[r] = "rejected"

LoadInit ==
    /\ failingLoads \in SUBSET Resources
    /\ loadState = <<>>
    /\ runPc = "call"
    /\ stepsRun = {}
    /\ runResult = "none"

\* generateResume is called: the five load methods are called, in the order of
\* the array, before the await
CallLoads ==
    /\ runPc = "call"
    /\ loadState' = [r \in Resources |-> "pending"]
    /\ runPc' = "awaitLoads"
    /\ UNCHANGED <<failingLoads, stepsRun, runResult, coreVars, cacheVars, heapVars,
                   spliceVars, kwVars>>

\* a load settles, whenever its reads end: the loads settle in any order, also
\* after generateResume returned
SettleLoad(r) ==
    /\ runPc # "call"
    /\ loadState[r] = "pending"
    /\ loadState' = [loadState EXCEPT ![r] = IF r \in failingLoads THEN "rejected"
                                                                   ELSE "fulfilled"]
    /\ UNCHANGED <<failingLoads, runPc, stepsRun, runResult, coreVars, cacheVars, heapVars,
                   spliceVars, kwVars>>

\* the await resumes with the five values
LoadsCompleted ==
    /\ runPc = "awaitLoads"
    /\ AllFulfilled(loadState)
    /\ runPc' = "steps"
    /\ UNCHANGED <<failingLoads, loadState, stepsRun, runResult, coreVars, cacheVars,
                   heapVars, spliceVars, kwVars>>

\* the await throws and the catch returns {success: false, error: error.message}
LoadRejected ==
    /\ runPc = "awaitLoads"
    /\ SomeRejected(loadState)
    /\ runPc' = "returned"
    /\ runResult' = "failure"
    /\ UNCHANGED <<failingLoads, loadState, stepsRun, coreVars, cacheVars, heapVars,
                   spliceVars, kwVars>>

\* the next of the steps after the loads runs
RunStep ==
    /\ runPc = "steps"
    /\ Cardinality(stepsRun) < Len(StepsAfterLoads)
    /\ stepsRun' = stepsRun \cup {StepsAfterLoads[Cardinality(stepsRun) + 1]}
    /\ UNCHANGED <<failingLoads, loadState, runPc, runResult, coreVars, cacheVars, heapVars,
                   spliceVars, kwVars>>

\* return {success: true, latexContent, metadata}
ReturnSuccess ==
    /\ runPc = "steps"
    /\ Cardinality(stepsRun) = Len(StepsAfterLoads)
    /\ runPc' = "returned"
    /\ runResult' = "success"
    /\ UNCHANGED <<failingLoads, loadState, stepsRun, coreVars, cacheVars, heapVars,
                   spliceVars, kwVars>>

LoadNext ==
    \/ CallLoads
    \/ \E r \in Resources : SettleLoad(r)
    \/ LoadsCompleted
    \/ LoadRejected
    \/ RunStep
    \/ ReturnSuccess

InitLoad == LoadInit /\ CoreIdle /\ CacheIdle /\ HeapIdle /\ SpliceIdle /\ KwIdle

SpecLoad == InitLoad /\ [][LoadNext]_vars

(***************************************************************************)
(* C23: no step of generateResume that scores, selects or splices has run  *)
(* unless the five loads have all completed, whatever the order in which   *)
(* they completed; when a load fails no such step ever runs and the result *)
(* is a failure.                                                           *)
(***************************************************************************)
C23_StepsOnlyAfterAllLoads ==
    /\ (runPc = "steps" \/ stepsRun # {}) =>
          \A r \in Resources : loadState[r] = "fulfilled"
    /\ failingLoads # {} =>
          /\ stepsRun = {}
          /\ runPc # "steps"
          /\ runPc = "returned" => runResult = "failure"

C23_Witness ==
    /\ runPc = "returned"
    /\ runResult = "success"
    /\ stepsRun = {StepsAfterLoads[j] : j \in DOMAIN StepsAfterLoads}
    /\ \A r \in Resources : loadState[r] = "fulfilled"


(***************************************************************************)
(* The arrays generateResume touches, by reference: the arrays of the      *)
(* cached knowledge base and the arrays the selections make.  map, filter  *)
(* and slice return a new array; sort and push change the array they are   *)
(* called on.                                                              *)
(***************************************************************************)
\* Most positions and most projects of the cached knowledge base.
MaxHeapPositions == 3
MaxHeapProjects == 2
\* Most generation requests.
MaxRequests == 2

\* a new array
HeapAlloc(h, array) == [heap |-> Append(h, array), ref |-> Len(h) + 1]

\* (mutant) the callback applied to the array itself
ArrayMapInPlace(h, ref) == [heap |-> h, ref |-> ref]

\* array.map(...): the scored entries, {...entry, relevanceScore}, in a new array
ArrayMap(h, ref) == HeapAlloc(h, h[ref])

\* array.sort((a, b) => b.relevanceScore - a.relevanceScore): in place
ArraySort(h, ref) == [h EXCEPT ![ref] = SortByScore(h[ref])]

\* array.slice(0, n)
ArraySlice(h, ref, n) == HeapAlloc(h, Slice0(h[ref], n))

\* categoryData.skills.filter(...)
ArrayFilter(h, ref) == HeapAlloc(h, SelectSeq(h[ref], LAMBDA skill : skill.kept))

\* array.push(x)
ArrayPush(h, ref, x) == [h EXCEPT ![ref] = Append(@, x)]

RECURSIVE PushLoop(_, _, _)
\* while (bulletPoints.length < 3 && pos.achievements) bulletPoints.push(...)
PushLoop(h, bulletPoints, pos) ==
    IF Len(h[bulletPoints]) < BulletsPerPosition /\ pos.hasAchievements
    THEN PushLoop(ArrayPush(h, bulletPoints,
                      Achieved(AchievementOrFiller(pos,
                          Len(h[bulletPoints]) - Len(h[pos.description])))),
                  bulletPoints, pos)
    ELSE h

RECURSIVE BulletsOnHeap(_, _, _, _)
\* the last .map of selectRelevantExperience, entry by entry
BulletsOnHeap(h, top, k, acc) ==
    IF k > Len(top) THEN [heap |-> h, out |-> acc]
    ELSE LET pos == top[k]
             bulletPoints == ArraySlice(h, pos.description, BulletsPerPosition)
             pushed == PushLoop(bulletPoints.heap, bulletPoints.ref, pos)
             description == ArraySlice(pushed, bulletPoints.ref, BulletsPerPosition)
         IN  BulletsOnHeap(description.heap, top, k + 1,
                           Append(acc, [pos EXCEPT !.description = description.ref]))

\* selectRelevantExperience on the positions array at positionsRef
ExperienceOnHeap(h, positionsRef) ==
    LET scoredPositions == ArrayMap(h, positionsRef)
        sorted == ArraySort(scoredPositions.heap, scoredPositions.ref)
        top == ArraySlice(sorted, scoredPositions.ref, MaxPositions)
    IN  BulletsOnHeap(top.heap, top.heap[top.ref], 1, <<>>)

\* selectRelevantSkills on the skills array of a category
SkillsOnHeap(h, skillsRef) ==
    LET relevantSkillsInCategory == ArrayFilter(h, skillsRef)
    IN  ArraySlice(relevantSkillsInCategory.heap, relevantSkillsInCategory.ref,
                   MaxSkillsPerCategory)

\* selectRelevantProjects on the projects array
ProjectsOnHeap(h, projectsRef) ==
    LET scoredProjects == ArrayMap(h, projectsRef)
        sorted == ArraySort(scoredProjects.heap, scoredProjects.ref)
    IN  ArraySlice(sorted, scoredProjects.ref, MaxProjects)

\* the references of the cached arrays
CachedRefs == [positions |-> 1, skills |-> 2, projects |-> 3]
PositionsRef == CachedRefs.positions
SkillsRef == CachedRefs.skills
ProjectsRef == CachedRefs.projects

\* the three selections of generateResume, and what they return, read through
\* the references
SelectionsOnHeap(h) ==
    LET experience == ExperienceOnHeap(h, PositionsRef)
        skills == SkillsOnHeap(experience.heap, SkillsRef)
        projects == ProjectsOnHeap(skills.heap, ProjectsRef)
    IN  [heap |-> projects.heap,
         out |-> [experience |-> [i \in DOMAIN experience.out |->
                                     [id |-> experience.out[i].id,
                                      description |-> projects.heap[experience.out[i].description]]],
                  skills |-> projects.heap[skills.ref],
                  projects |-> projects.heap[projects.ref]]]

\* the cached knowledge base: positions of score 0 or 5 with 1 or 4 description
\* strings, three skills, projects of score 0 or 2
HeapPositionKinds == {0, 5} \X {1, 4}

LoadedHeaps ==
    { << [i \in DOMAIN kinds |->
            [id |-> i, relevanceScore |-> kinds[i][1], description |-> 3 + i,
             hasAchievements |-> TRUE, achievements |-> << <<"a1">> >>]],
         << [id |-> 1, kept |-> TRUE], [id |-> 2, kept |-> FALSE], [id |-> 3, kept |-> TRUE] >>,
         [i \in DOMAIN scores |-> [id |-> i, relevanceScore |-> scores[i]]] >>
      \o [i \in DOMAIN kinds |-> [j \in 1..kinds[i][2] |-> <<IndexNames[j]>>]] :
        kinds \in SeqsUpTo(HeapPositionKinds, MaxHeapPositions),
        scores \in SeqsUpTo({0, 2}, MaxHeapProjects) }

HeapInit ==
    /\ loadedHeap \in LoadedHeaps
    /\ heap = loadedHeap
    /\ heapPc = 0
    /\ heapOut = <<>>

\* one generation request: the three selections
SelectOnHeap ==
    /\ heapPc < MaxRequests
    /\ LET run == SelectionsOnHeap(heap)
       IN  /\ heap' = run.heap
           /\ heapOut' = Append(heapOut, run.out)
    /\ heapPc' = heapPc + 1
    /\ UNCHANGED <<loadedHeap, coreVars, cacheVars, loadVars, spliceVars, kwVars>>

HeapNext == SelectOnHeap

InitHeap == HeapInit /\ CoreIdle /\ CacheIdle /\ LoadIdle /\ SpliceIdle /\ KwIdle

SpecHeap == InitHeap /\ [][HeapNext]_vars

(***************************************************************************)
(* C24: after any number of generation requests the arrays of the cached   *)
(* knowledge base (the order of the positions and of the projects, the     *)
(* description list of each position, the skill list of the category) are  *)
(* what was loaded, and a later request returns the same selection.        *)
(***************************************************************************)
C24_CachedArraysUntouched ==
    /\ Len(heap) >= Len(loadedHeap)
    /\ SubSeq(heap, 1, Len(loadedHeap)) = loadedHeap
    /\ \A i, j \in DOMAIN heapOut : heapOut[i] = heapOut[j]

C24_Witness ==
    /\ heapPc = 2
    /\ Len(loadedHeap[PositionsRef]) = 2
    /\ loadedHeap[PositionsRef][1].relevanceScore < loadedHeap[PositionsRef][2].relevanceScore
    /\ Len(loadedHeap[4]) = 1
    /\ heapOut[2].experience[1].id = 2
    /\ Len(heapOut[2].experience[2].description) = 3
    /\ Len(heap) > Len(loadedHeap)


(***************************************************************************)
(* replaceSection on its own: the Experience region of a template spliced  *)
(* with a rendered experience block, then spliced again with the same      *)
(* block.                                                                  *)
(***************************************************************************)
\* the first description of the position the block is rendered from
SpliceBullets == DescriptionBullets \cup { <<ListEnd>>, <<"P", "a", "i", "d", " ", "$", "$">> }

\* what buildExperienceSection renders of one selected position
SpliceBlocks == {BuildExperienceSection(<<PositionWith(b)>>) : b \in SpliceBullets}

SpliceDocs == {TemplateLacking(what) : what \in Lacking}

SpliceInit ==
    /\ spDoc \in SpliceDocs
    /\ spBlock \in SpliceBlocks
    /\ spPc = "input"
    /\ spOnce = <<>>
    /\ spTwice = <<>>

\* latexContent = this.replaceSection(latexContent, 'Experience', experienceSection)
SpliceOnce ==
    /\ spPc = "input"
    /\ spOnce' = ReplaceSection(spDoc, "Experience", spBlock)
    /\ spPc' = "once"
    /\ UNCHANGED <<spDoc, spBlock, spTwice, coreVars, cacheVars, loadVars, heapVars, kwVars>>

\* the same call on the document the first call returned
SpliceAgain ==
    /\ spPc = "once"
    /\ spTwice' = ReplaceSection(spOnce, "Experience", spBlock)
    /\ spPc' = "twice"
    /\ UNCHANGED <<spDoc, spBlock, spOnce, coreVars, cacheVars, loadVars, heapVars, kwVars>>

SpliceNext == SpliceOnce \/ SpliceAgain

InitSplice == SpliceInit /\ CoreIdle /\ CacheIdle /\ LoadIdle /\ HeapIdle /\ KwIdle

SpecSplice == InitSplice /\ [][SpliceNext]_vars

(***************************************************************************)
(* C25: replaceSection applied to the Experience region twice with the     *)
(* same rendered block yields the document it yields applied once.         *)
(***************************************************************************)
C25_SpliceTwiceIsSpliceOnce == spPc = "twice" => spTwice = spOnce

\* where the Experience region of doc stands: the places of its marker, of its
\* list start and of its list end, <<>> when the document has no such region
ExperienceRegion(doc) ==
    LazyMatch(doc, << <<ExperienceMarker>>, <<ListStart>>, <<ListEnd>> >>, 1)

(***************************************************************************)
(* C29: replaceSection inserts the rendered block literally: after the     *)
(* splice the region holds the fixed padding and the block as rendered,    *)
(* also when the block holds '$' followed by a digit, '$&' or '$$'; the    *)
(* text before the list start and from the list end on is unchanged.       *)
(***************************************************************************)
C29_BlockInsertedLiterally ==
    (spPc \in {"once", "twice"} /\ ExperienceRegion(spDoc) # <<>>) =>
        LET at == ExperienceRegion(spDoc) IN
        spOnce = SubSeq(spDoc, 1, at[2]) \o <<"\n\n">> \o spBlock \o <<"\n\n  ">>
                    \o SubSeq(spDoc, at[3], Len(spDoc))


(***************************************************************************)
(* extractJobKeywords on its own, called twice on job descriptions made of *)
(* a few words in every order and letter case.                             *)
(***************************************************************************)
\* Most words of a job description.
MaxWords == 3

KwWords == { <<"A", "W", "S">>, <<"r", "e", "a", "c", "t">>, <<"G", "i", "t">>, <<"J", "a", "v", "a", "S", "c", "r", "i", "p", "t">> }

KwTexts ==
    {Join(ws, <<" ">>) : ws \in SeqsUpTo(KwWords, MaxWords)}
      \cup { <<"D", "i", "g", "i", "t", "a", "l">>, <<"N", "o", "d", "e", "X", "j", "s">>, <<"R", "E", "S", "T", " ", "A", "P", "I", "s">> }

KwInit ==
    /\ kwText \in KwTexts
    /\ kwPc = "input"
    /\ kwOut = <<>>
    /\ kwAgain = <<>>

\* const jobKeywords = this.extractJobKeywords(jobDescription)
ExtractOnce ==
    /\ kwPc = "input"
    /\ kwOut' = ExtractJobKeywords(kwText)
    /\ kwPc' = "once"
    /\ UNCHANGED <<kwText, kwAgain, coreVars, cacheVars, loadVars, heapVars, spliceVars>>

\* the call the next selection makes with the same job description
ExtractAgain ==
    /\ kwPc = "once"
    /\ kwAgain' = ExtractJobKeywords(kwText)
    /\ kwPc' = "twice"
    /\ UNCHANGED <<kwText, kwOut, coreVars, cacheVars, loadVars, heapVars, spliceVars>>

KwNext == ExtractOnce \/ ExtractAgain

InitKw == KwInit /\ CoreIdle /\ CacheIdle /\ LoadIdle /\ HeapIdle /\ SpliceIdle

SpecKw == InitKw /\ [][KwNext]_vars

(***************************************************************************)
(* C26: extractJobKeywords returns the terms of the vocabulary that occur  *)
(* in the text, letter case apart, in the order of the vocabulary; a       *)
(* second call on the same text returns the same list; the empty text      *)
(* gives the empty list.                                                   *)
(***************************************************************************)
C26_KeywordsAreVocabularyTermsInOrder ==
    /\ kwPc \in {"once", "twice"} =>
          /\ kwOut = SelectSeq(TechKeywords, LAMBDA term : ContainsAnyCase(kwText, term))
          /\ kwText = <<>> => kwOut = <<>>
    /\ kwPc = "twice" => kwAgain = kwOut

C26_Witness ==
    /\ kwPc = "twice"
    /\ kwText = <<"G", "i", "t", " ", "A", "W", "S", " ", "J", "a", "v", "a", "S", "c", "r", "i", "p", "t">>
    /\ kwOut = << <<"j", "a", "v", "a">>, <<"j", "a", "v", "a", "s", "c", "r", "i", "p", "t">>,
                  <<"a", "w", "s">>, <<"g", "i", "t">> >>


(***************************************************************************)
(* selectRelevantSkills and buildSkillsSection on a knowledge base of the  *)
(* six categories the block reads, each absent, with a skill that is not   *)
(* retained, or with one or two retained skills, and a seventh category    *)
(* the block does not read.                                                *)
(***************************************************************************)
BlockCategoryKeys ==
    <<"programming_languages", "web_technologies", "cloud_technologies", "databases",
      "tools_and_systems", "specialized_technologies">>

BlockKeyLetters == <<"p", "w", "c", "d", "t", "s">>

BlockSkill(k, i, proficiency) ==
    [name |-> <<BlockKeyLetters[k], IndexNames[i]>>, proficiency |-> proficiency, context |-> <<>>]

\* the skill lists of category k; <<>> stands for a category that is not in the file
BlockSkillLists(k) ==
    << <<>>,
       <<BlockSkill(k, 1, "Beginner")>>,
       <<BlockSkill(k, 1, "Advanced")>>,
       <<BlockSkill(k, 1, "Intermediate"), BlockSkill(k, 2, "Beginner"), BlockSkill(k, 3, "Advanced")>> >>

BlockKnowledgeBase(choice) ==
    LET lists == [k \in DOMAIN BlockCategoryKeys |-> BlockSkillLists(k)[choice[k]]]
        present == {k \in DOMAIN BlockCategoryKeys : lists[k] # <<>>}
    IN  [c \in {BlockCategoryKeys[k] : k \in present} \cup {"soft_skills"} |->
            IF c = "soft_skills"
            THEN [skills |-> <<[name |-> <<"o", "1">>, proficiency |-> "Advanced", context |-> <<>>]>>]
            ELSE [skills |-> lists[CHOOSE k \in present : BlockCategoryKeys[k] = c]]]

BlockKnowledgeBases ==
    { BlockKnowledgeBase(choice) :
        choice \in [DOMAIN BlockCategoryKeys -> DOMAIN BlockSkillLists(1)] }

BlockInit ==
    /\ selJobDescription = <<"D", "o", "c", "s", " ", "t", "e", "a", "m">>
    /\ kbCategories \in BlockKnowledgeBases
    /\ skillPc = "input"
    /\ selectedSkills = <<>>
    /\ skillsBlock = <<>>
    /\ kbPositions = <<>>
    /\ kbProjects = <<>>
    /\ selPc = "idle"
    /\ pselPc = "idle"
    /\ selected = <<>>
    /\ selectedProjects = <<>>

InitBlock == BlockInit /\ SanIdle /\ ExpIdle /\ ProjIdle /\ GenIdle /\ ToolIdle /\ MoreIdle

SpecBlock == InitBlock /\ [][SkillNext]_vars

\* the names retained in a category, none for a category that was dropped
RetainedNames(key) ==
    IF key \in DOMAIN selectedSkills
    THEN [i \in DOMAIN selectedSkills[key].skills |-> selectedSkills[key].skills[i].name]
    ELSE <<>>

\* the four logical groups: the label of the line and the names it lists
BlockGroups ==
    << [label |-> <<"Programming Languages:">>,
        names |-> RetainedNames("programming_languages")],
       [label |-> <<"Frontend ", "\\", "&", " Backend:">>,
        names |-> RetainedNames("web_technologies")],
       [label |-> <<"Databases ", "\\", "&", " Cloud:">>,
        names |-> RetainedNames("databases") \o RetainedNames("cloud_technologies")],
       [label |-> <<"AI/ML ", "\\", "&", " Tools:">>,
        names |-> RetainedNames("tools_and_systems") \o RetainedNames("specialized_technologies")] >>

GroupLine(group) ==
    <<"\\textbf{">> \o group.label \o <<"}", " ">> \o Join(group.names, <<",", " ">>)

RECURSIVE GroupLines(_)
GroupLines(groups) ==
    IF groups = <<>> THEN <<>>
    ELSE (IF Head(groups).names = <<>> THEN <<>> ELSE <<GroupLine(Head(groups))>>)
            \o GroupLines(Tail(groups))

\* the lines of a block: one more than its line ends, none for the empty block
BlockLineCount(block) ==
    IF block = <<>> THEN 0 ELSE 1 + Cardinality({i \in DOMAIN block : block[i] = "\n"})

(***************************************************************************)
(* C27: the skills block has one line for each of the four groups          *)
(* (programming languages; web technologies; databases plus cloud; tools   *)
(* plus specialized) with a retained skill and none for a group without,   *)
(* so at most 4 lines; the lines are joined by the line-break token and    *)
(* each lists the names of its group joined by commas.                     *)
(***************************************************************************)
C27_OneLinePerNonEmptyGroup ==
    skillPc = "done" =>
        /\ skillsBlock = Join(GroupLines(BlockGroups), <<" ", "\\", "\\", "\n">>)
        /\ BlockLineCount(skillsBlock)
              = Cardinality({g \in DOMAIN BlockGroups : BlockGroups[g].names # <<>>})
        /\ BlockLineCount(skillsBlock) <= Len(BlockGroups)

\* A block of two lines: no programming or web skill retained, cloud without
\* databases, and both tools and specialized with two names each.
C27_Witness ==
    /\ skillPc = "done"
    /\ DOMAIN selectedSkills =
          {"cloud_technologies", "tools_and_systems", "specialized_technologies", "soft_skills"}
    /\ "programming_languages" \in DOMAIN kbCategories
    /\ Len(RetainedNames("tools_and_systems")) = 2
    /\ Len(RetainedNames("specialized_technologies")) = 2
    /\ BlockLineCount(skillsBlock) = 2


(***************************************************************************)
(* C28: for a position whose achievements list is absent,                  *)
(* selectRelevantExperience completes and gives the bullets it gives for   *)
(* the same position with an empty achievements list.                      *)
(***************************************************************************)
C28_AbsentListIsEmptyList ==
    (expPc = "done" /\ ~position.hasAchievements) =>
        expBullets = PositionBullets([position EXCEPT !.hasAchievements = TRUE,
                                                      !.achievements = <<>>])


(***************************************************************************)
(* C30: a generation that fails at a load or at a later step hands back a  *)
(* result with success false and the message of the error instead of       *)
(* raising; no output file is written for it, a .tex file exists only      *)
(* after a successful generation, and the tool call is answered by an      *)
(* error response that names the cause.                                    *)
(***************************************************************************)
C30_FailedGenerationLeavesNoOutput ==
    /\ (toolPc \in {"generated", "responded"} /\ loadsIssued # {} /\ ~result.success) =>
          /\ result.error \in {"ENOENT", "TypeError"}
          /\ result.latexContent = <<>>
          /\ filesWritten = {}
          /\ toolPc = "responded" =>
                /\ response.isError
                /\ response = FailureResponse(GenerationError, result.error)
    /\ "tex" \in filesWritten => (result.success /\ toolPc = "responded")

\* generate-resume answered after a load raised on unreadable storage
C30_Witness ==
    /\ toolName = "generate-resume"
    /\ toolPc = "responded"
    /\ ~storageReadable
    /\ loadsIssued = Resources
    /\ result.error = "ENOENT"
    /\ response.isError
    /\ filesWritten = {}

\* generate-resume answered after generateTailoredSummary raised
C30_WitnessLaterStep ==
    /\ toolName = "generate-resume"
    /\ toolPc = "responded"
    /\ storageReadable
    /\ hasJobDescription
    /\ result.error = "TypeError"
    /\ response.isError


=============================================================================
